---- MODULE Spec2Model ----
(***************************************************************************)
(* Helsen IA dashboard front end (script.js): WhatsApp status/QR polling,  *)
(* chat memory, product list cache and session credentials.                *)
(***************************************************************************)
EXTENDS Integers, Sequences, FiniteSets, TLC

VARIABLES
  \* ---- WhatsApp integration (script.js:14-16) and the DOM it drives ----
  waCurrentInstance, waCurrentToken, waPollInterval,
  activeTimers,      \* handles of the interval timers the browser still runs
  hidden,            \* document.hidden
  qrLib,             \* whether the QRCode library is loaded (typeof QRCode)
  statusText,        \* #wa-status textContent
  imgDisplay,        \* #wa-qr-code style.display
  drawerDisplay,     \* #wa-qr-drawer style.display
  inflight,          \* pending asynchronous operations (bag: kind -> count)
  microtask,         \* continuation that runs before any other task
  page,              \* document currently loaded
  localStorage,
  connectedFor,      \* instance for which a connected status was processed
  lastStep,          \* the handler step that produced the current state
  \* ---- Chatbot (script.js:1239-1580) ----
  history, isTyping, pendingImageFile,
  chatReq,           \* the chat request awaiting its answer: none, text, image
  pushes,            \* Date.now(): entries pushed since the memory was empty
  chatInflight,      \* chat requests (text or image) in flight
  sendDisabled,      \* whether #chatbot-send is disabled
  \* ---- products (script.js:8, 417-454, 896-971, 1019-1041) ----
  products,
  table,             \* rows of #product-list
  productFetches,    \* fetchProducts calls awaiting their answer
  productWrites,     \* pending upload/create/update/delete requests
  lastFetched,       \* the list the last successful fetchProducts produced
  fetchOutcome,      \* how the fetchProducts call that settled last ended
  productForm,       \* whether #product-form holds the values the user entered
  productNotice,     \* type of the last notification a product handler showed
  \* ---- argument and result of extractQrFrom and of friendlyState ----
  qrIn, qrOut, rawIn, rawOut,
  \* ---- login page (auth.js) ----
  apiPrefix,         \* PREFIX (auth.js:16)
  view,              \* the form on display: login or register
  errShown,          \* #errorMsg is displayed
  authFlow,          \* the handler awaiting an answer: none, login, register
  authStep,          \* 0 idle, i the i-th path of tryAuthEndpoints, last + 1 the fallback
  posts,             \* URLs POSTed for the last submit, in order
  lastAnswer,        \* kind of the last answer: none, token, notoken, error
  accepted,          \* an OK answer without a token came for the last submit
  bodyRuns,          \* runs of the handler body for the last submit event
  centsIn,           \* the value reaisToCents is called with
  centsOut,          \* what it returns
  urlIn,             \* the URL a caller hands to window.fetch
  urlOut,            \* the URL the shim hands to the original fetch
  cnpjButtons,       \* the search buttons: compact, disabled, label, text
  originalTexts,     \* the texts the pending lookup read from the buttons
  cnpjLookups,       \* CNPJ lookup requests in flight
  cnpjAlert,         \* the last alert of the lookup handler
  companyFilled      \* whether a lookup has filled the company fields

waVars == <<waCurrentInstance, waCurrentToken, waPollInterval, activeTimers,
            hidden, qrLib, statusText, imgDisplay, drawerDisplay,
            inflight, microtask, page, localStorage, connectedFor,
            lastStep>>
chatVars == <<history, isTyping, pendingImageFile, chatReq, pushes,
             chatInflight, sendDisabled>>
prodVars == <<products, table, productFetches, productWrites, lastFetched,
             fetchOutcome, productForm, productNotice>>
pureVars == <<qrIn, qrOut, rawIn, rawOut>>
authVars == <<apiPrefix, view, errShown, authFlow, authStep, posts, lastAnswer,
             accepted, bodyRuns>>
convVars == <<centsIn, centsOut, urlIn, urlOut>>
cnpjVars == <<cnpjButtons, originalTexts, cnpjLookups, cnpjAlert, companyFilled>>
otherVars == <<authVars, convVars, cnpjVars>>
vars == <<waVars, chatVars, prodVars, pureVars, otherVars>>

(***************************************************************************)
(* JavaScript values.  A string is a sequence of one-character strings, an *)
(* object a sequence of <<key, value>> pairs in insertion order.           *)
(***************************************************************************)
Undefined == [t |-> "undefined"]
Null == [t |-> "null"]
Bool(b) == [t |-> "bool", b |-> b]
Num(n) == [t |-> "num", n |-> n]
Str(s) == [t |-> "str", s |-> s]
Obj(f) == [t |-> "obj", f |-> f]
Arr(a) == [t |-> "arr", a |-> a]

Truthy(v) ==
  CASE v.t = "undefined" -> FALSE
    [] v.t = "null" -> FALSE
    [] v.t = "bool" -> v.b
    [] v.t = "num" -> v.n # 0
    [] v.t = "str" -> Len(v.s) > 0
    [] OTHER -> TRUE

\* obj[k]: the value stored under k, undefined when absent or obj is no object
Get(obj, k) ==
  IF obj.t # "obj" THEN Undefined
  ELSE LET hits == {i \in 1..Len(obj.f) : obj.f[i][1] = k}
       IN IF hits = {} THEN Undefined ELSE obj.f[CHOOSE i \in hits : TRUE][2]

\* arr[i], counting from 0
At(arr, i) ==
  IF arr.t = "arr" /\ i + 1 <= Len(arr.a) THEN arr.a[i + 1] ELSE Undefined

\* a || b
Or(a, b) == IF Truthy(a) THEN a ELSE b
\* a && b
And(a, b) == IF Truthy(a) THEN b ELSE a

LowerCh(c) ==
  CASE c = "A" -> "a" [] c = "C" -> "c" [] c = "D" -> "d" [] c = "E" -> "e"
    [] c = "G" -> "g"
    [] c = "I" -> "i" [] c = "N" -> "n" [] c = "O" -> "o" [] c = "Q" -> "q"
    [] c = "R" -> "r" [] c = "T" -> "t" [] c = "W" -> "w"
    [] OTHER -> c
toLowerCase(s) == [i \in 1..Len(s) |-> LowerCh(s[i])]
includes(s, sub) ==
  \E i \in 1..(Len(s) - Len(sub) + 1) : SubSeq(s, i, i + Len(sub) - 1) = sub
startsWith(s, p) == Len(s) >= Len(p) /\ SubSeq(s, 1, Len(p)) = p

S_connected == <<"c","o","n","n","e","c","t","e","d">>
S_wait == <<"w","a","i","t">>
S_qr == <<"q","r">>
S_waiting_qr == <<"w","a","i","t","i","n","g","-","q","r">>
S_connecting == <<"c","o","n","n","e","c","t","i","n","g">>
S_dataimage == <<"d","a","t","a",":","i","m","a","g","e">>

(***************************************************************************)
(* extractQrFrom (script.js:103-118)                                       *)
(***************************************************************************)
QrKeys == <<"qrcode", "qrCode", "qr_code", "qrbase64", "qrBase64", "code",
            "imageUrl", "image_url", "dataUrl", "data_url">>
QrMinLen == 5

IsQrString(v) == v.t = "str" /\ Len(v.s) > QrMinLen

\* typeof v === 'object' for a value other than null
IsObject(v) == v.t \in {"obj", "arr"}

\* the values Object.keys(obj) leads to, in its order
ValuesOf(obj) ==
  IF obj.t = "obj" THEN [i \in 1..Len(obj.f) |-> obj.f[i][2]]
  ELSE IF obj.t = "arr" THEN obj.a
  ELSE << >>

\* the first loop of extractQrFrom (script.js:106-109)
OwnQr(obj) ==
  LET own == {i \in 1..Len(QrKeys) : IsQrString(Get(obj, QrKeys[i]))}
  IN IF own # {}
     THEN Get(obj, QrKeys[CHOOSE i \in own : \A j \in own : i <= j])
     ELSE Null

\* extractQrFrom as it would be if it looked one level below obj only
extractQrOneLevel(obj) ==
  IF ~IsObject(obj) THEN Null
  ELSE IF OwnQr(obj) # Null THEN OwnQr(obj)
  ELSE LET vals == ValuesOf(obj)
           sub == [i \in 1..Len(vals) |->
                     IF IsObject(vals[i]) THEN OwnQr(vals[i]) ELSE Null]
           hit == {i \in 1..Len(vals) : Truthy(sub[i])}
       IN IF hit = {} THEN Null
          ELSE sub[CHOOSE i \in hit : \A j \in hit : i <= j]

RECURSIVE extractQrFrom(_)
extractQrFrom(obj) ==
  IF ~IsObject(obj) THEN Null
  ELSE IF OwnQr(obj) # Null THEN OwnQr(obj)
  ELSE LET vals == ValuesOf(obj)
           sub == [i \in 1..Len(vals) |->
                     IF IsObject(vals[i]) THEN extractQrFrom(vals[i]) ELSE Null]
           hit == {i \in 1..Len(vals) : Truthy(sub[i])}
       IN IF hit = {} THEN Null
          ELSE sub[CHOOSE i \in hit : \A j \in hit : i <= j]

(***************************************************************************)
(* friendlyState (script.js:121-134)                                       *)
(***************************************************************************)
\* JSON.stringify(raw): a string that determines raw and starts with "{"
JsonString(raw) == [t |-> "json", of |-> raw]

friendlyStateCaseSensitive(raw) ==
  IF raw.t = "str"
  THEN IF raw.s = S_connected THEN Str(S_connected)
       ELSE IF includes(raw.s, S_wait) \/ includes(raw.s, S_qr)
            THEN Str(S_waiting_qr) ELSE raw
  ELSE IF IsObject(raw)
  THEN IF Get(raw, "connected") = Bool(TRUE) /\ Get(raw, "loggedIn") = Bool(TRUE)
       THEN Str(S_connected)
       ELSE IF Get(raw, "connected") = Bool(TRUE) /\ Get(raw, "loggedIn") = Bool(FALSE)
            THEN Str(S_waiting_qr) ELSE JsonString(raw)
  ELSE Str(S_connecting)

friendlyState(raw) ==
  IF raw.t = "str"
  THEN LET low == toLowerCase(raw.s)
       IN IF low = S_connected THEN Str(S_connected)
          ELSE IF includes(low, S_wait) \/ includes(low, S_qr)
               THEN Str(S_waiting_qr) ELSE raw
  ELSE IF IsObject(raw)
  THEN IF Get(raw, "connected") = Bool(TRUE) /\ Get(raw, "loggedIn") = Bool(TRUE)
       THEN Str(S_connected)
       ELSE IF Get(raw, "connected") = Bool(TRUE) /\ Get(raw, "loggedIn") = Bool(FALSE)
            THEN Str(S_waiting_qr) ELSE JsonString(raw)
  ELSE Str(S_connecting)

(***************************************************************************)
(* Bounds and sample data of the WhatsApp model                            *)
(***************************************************************************)
MaxTimers == 2       \* interval handles the model lets the browser hand out
MaxInflight == 2     \* asynchronous operations pending at the same time

Names == {"1"}
InstStr(n) == Str(<<"i", n>>)
K1 == Str(<<"k", "1">>)
QR_IMG == Str(S_dataimage \o <<"/", "p">>)
QR_TXT == Str(<<"2", "@", "a", "b", "c", "d">>)
S_CONNECTED == <<"C", "O", "N", "N", "E", "C", "T", "E", "D">>

\* bodies a status endpoint may answer with
StatusBodies == {
  Obj(<< <<"status", Str(S_connected)>> >>),
  Obj(<< <<"instance", Obj(<< <<"status", Str(S_CONNECTED)>> >>)>> >>),
  Obj(<< <<"status", Obj(<< <<"connected", Bool(TRUE)>>, <<"loggedIn", Bool(FALSE)>> >>)>> >>),
  Obj(<< <<"status", Str(S_wait)>>, <<"qrcode", QR_IMG>> >>),
  Obj(<< <<"state", Str(S_qr)>>, <<"connect", Obj(<< <<"code", QR_TXT>> >>)>> >>),
  Obj(<< <<"status", Str(S_wait)>> >>),
  Obj(<< >>) }

\* bodies a fallback QR endpoint may answer with
FallbackBodies == {
  Obj(<< <<"qrcode", QR_IMG>> >>),
  Obj(<< <<"data", Obj(<< <<"code", QR_TXT>> >>)>> >>),
  Obj(<< >>) }

\* bodies the create-instance endpoint may answer with
CreateBody(tok, extra) ==
  Obj((IF tok THEN << <<"token", K1>> >> ELSE << >>) \o extra)
CreateExtras == {
  << >>,
  << <<"connect", Obj(<< <<"status", Str(S_qr)>>, <<"qrcode", QR_IMG>> >>)>> >>,
  << <<"status", Str(S_connected)>> >> }

\* ways a request can fail: fetch rejects, non-OK status, unparsable body
Fail(w) == [t |-> "fail", w |-> w]
Failures == {Fail("reject"), Fail("notOk"), Fail("badJson")}

ReqKinds == {<<"status", "plain">>, <<"status", "create">>,
             <<"fb1", "plain">>, <<"fb1", "create">>,
             <<"fb2", "plain">>, <<"fb2", "create">>,
             <<"canvas", "">>, <<"sendTest", "">>, <<"create", "1">>}

Pending(b) ==
  b[<<"status", "plain">>] + b[<<"status", "create">>] + b[<<"fb1", "plain">>]
  + b[<<"fb1", "create">>] + b[<<"fb2", "plain">>] + b[<<"fb2", "create">>]
  + b[<<"canvas", "">>] + b[<<"sendTest", "">>] + b[<<"create", "1">>]
Add(b, k) == [b EXCEPT ![k] = @ + 1]
Del(b, k) == [b EXCEPT ![k] = @ - 1]
AddN(b, k, n) == [b EXCEPT ![k] = @ + n]
NoRequests == [k \in ReqKinds |-> 0]

\* lastStep: what the step that led here was.  "statusFail": a status request
\* failed; "statusConnected", "statusQr", "statusNoQr": a status answer was
\* processed (connected; not connected with / without a QR string in it);
\* "fbQr", "fbNoQr": a fallback answer with / without a QR string;
\* "tick": a polling timer fired; "alert": another step, which showed an
\* alert(); "other": any other step
\* the strings longer than QrMinLen stored under a listed key anywhere in v
RECURSIVE QrStringsIn(_)
QrStringsIn(v) ==
  IF v.t = "obj"
  THEN UNION {
         (IF (\E j \in 1..Len(QrKeys) : QrKeys[j] = v.f[i][1]) /\ IsQrString(v.f[i][2])
          THEN {v.f[i][2]} ELSE {})
         \cup QrStringsIn(v.f[i][2]) : i \in 1..Len(v.f)}
  ELSE IF v.t = "arr"
  THEN UNION {QrStringsIn(v.a[i]) : i \in 1..Len(v.a)}
  ELSE {}
HoldsQr(answer) == answer \notin Failures /\ QrStringsIn(answer) # {}

CredKeys == {"token", "org_id", "flow_id", "user_name"}
StorageKeys == CredKeys \cup {"wa_instance", "wa_token", "agentConfig"}
SomeValue == Str(<<"v">>)

(***************************************************************************)
(* renderQr / drawQrInto (script.js:79-100, 137-155): the display state    *)
(* after renderQr(qr) returns, and whether a QRCode.toCanvas callback is   *)
(* left pending.                                                           *)
(***************************************************************************)
renderQr(qr) ==
  IF ~Truthy(qr)
  THEN [img |-> "none", drw |-> "none", canvas |-> 0]
  ELSE IF qr.t = "str" /\ startsWith(qr.s, S_dataimage)
  THEN [img |-> "block", drw |-> "none", canvas |-> 0]
  ELSE IF qr.t = "str"
  THEN IF qrLib
       THEN [img |-> "none", drw |-> drawerDisplay, canvas |-> 1]
       ELSE [img |-> "none", drw |-> "block", canvas |-> 0]
  ELSE [img |-> "none", drw |-> "none", canvas |-> 0]

Show(r) ==
  /\ imgDisplay' = r.img
  /\ drawerDisplay' = r.drw

\* clearInterval(h): h = Null or a handle no longer running changes nothing
clearInterval(timers, h) == timers \ {h}

\* setInterval: a handle no running timer has; every caller stores it in
\* waPollInterval at once, so no cleared handle stays referenced
FreeHandles == (1..MaxTimers) \ activeTimers
NewHandle == CHOOSE h \in FreeHandles : \A g \in FreeHandles : h <= g

\* guard of updateWhatsAppStatus and of tryFetchQrFallback (script.js:274, 159)
HasInstance(inst, tok) == Truthy(inst) /\ Truthy(tok)

(***************************************************************************)
(* The product list: what fetchProducts makes of an answer                 *)
(* (script.js:421-448) and updateProductTable (script.js:937-971)          *)
(***************************************************************************)
ItemsOf(data) == Or(Get(data, "items"), Arr(<< >>))

\* data.items, .map or p.price_cents throws a TypeError
MapThrows(data) ==
  \/ data.t \in {"null", "undefined"}
  \/ ItemsOf(data).t # "arr"
  \/ \E i \in 1..Len(ItemsOf(data).a) : ItemsOf(data).a[i].t \in {"null", "undefined"}

\* product.price (script.js:423) is kept in hundredths of a real: for an
\* integer price_cents the quotient price_cents / 100 is the double nearest
\* to that decimal
MapProduct(p) ==
  [id |-> Get(p, "id"),
   name |-> Get(p, "title"),
   price |-> IF Truthy(Get(p, "price_cents")) THEN Get(p, "price_cents").n ELSE 0,
   priceCents |-> Or(Get(p, "price_cents"), Num(0))]

MapItems(data) ==
  [i \in 1..Len(ItemsOf(data).a) |-> MapProduct(ItemsOf(data).a[i])]

DigitChars == <<"0", "1", "2", "3", "4", "5", "6", "7", "8", "9">>

\* Number.prototype.toFixed(2) of a non-negative number of h hundredths, as a
\* sequence of characters
toFixedNoPadding(h) ==
  LET RECURSIVE Digits(_)
      Digits(n) == IF n < 10 THEN <<DigitChars[n + 1]>>
                   ELSE Append(Digits(n \div 10), DigitChars[(n % 10) + 1])
  IN Digits(h \div 100) \o <<".">> \o Digits(h % 100)
toFixed2(h) ==
  LET RECURSIVE Digits(_)
      Digits(n) == IF n < 10 THEN <<DigitChars[n + 1]>>
                   ELSE Append(Digits(n \div 10), DigitChars[(n % 10) + 1])
  IN Digits(h \div 100) \o <<".">> \o
     <<DigitChars[((h % 100) \div 10) + 1], DigitChars[(h % 10) + 1]>>

\* the price cell is `R$ ${product.price.toFixed(2)}` (script.js:963)
updateProductTable(ps) ==
  IF Len(ps) = 0 THEN << [empty |-> TRUE] >>
  ELSE [i \in 1..Len(ps) |->
          [id |-> ps[i].id, name |-> ps[i].name, cents |-> ps[i].priceCents,
           price |-> <<"R", "$", " ">> \o toFixed2(ps[i].price)]]

(***************************************************************************)
(* State after the scripts have run, before DOMContentLoaded               *)
(***************************************************************************)
NoStorage == [k \in StorageKeys |-> Null]
InitStorages ==
  {[k \in StorageKeys |->
      IF k \in CredKeys THEN SomeValue
      ELSE IF k = "wa_instance" THEN (IF wa THEN InstStr("1") ELSE Null)
      ELSE IF k = "wa_token" THEN (IF wa THEN K1 ELSE Null)
      ELSE Null] : wa \in BOOLEAN}

InitWa ==
  /\ waCurrentInstance = Null
  /\ waCurrentToken = Null
  /\ waPollInterval = 0
  /\ activeTimers = {}
  /\ hidden \in BOOLEAN
  /\ qrLib \in BOOLEAN
  /\ statusText = Null
  /\ imgDisplay = "none"
  /\ drawerDisplay = "none"
  /\ inflight = NoRequests
  /\ microtask = "none"
  /\ page = "loading"
  /\ localStorage \in InitStorages
  /\ connectedFor = Null
  /\ lastStep = "other"

Ready == page = "index" /\ microtask = "none"

\* continuation of the caller that awaits updateWhatsAppStatus
AfterUpdate(origin) == IF origin = "create" THEN "createCont" ELSE "none"

(***************************************************************************)
(* DOMContentLoaded (script.js:1175-1197, 1587-1594):                      *)
(* restoreWhatsAppInstance (script.js:187-209), fetchProducts(), then      *)
(* updateProductTable() and new Chatbot()                                  *)
(***************************************************************************)
restoreWhatsAppInstance ==
  LET inst == localStorage["wa_instance"]
      tok == localStorage["wa_token"]
  IN IF Truthy(inst) /\ Truthy(tok)
     THEN /\ waCurrentInstance' = inst
          /\ waCurrentToken' = tok
          /\ inflight' = Add(inflight, <<"status", "plain">>)
          /\ waPollInterval' = NewHandle
          /\ activeTimers' = clearInterval(activeTimers, waPollInterval) \cup {NewHandle}
          /\ lastStep' = "other"
     ELSE /\ UNCHANGED <<waCurrentInstance, waCurrentToken, inflight,
                         waPollInterval, activeTimers>>
          /\ lastStep' = "other"

PageLoad ==
  /\ page = "loading"
  /\ page' = "index"
  /\ restoreWhatsAppInstance
  /\ productFetches' = productFetches + 1
  /\ table' = updateProductTable(products)
  /\ UNCHANGED <<hidden, qrLib, statusText, imgDisplay, drawerDisplay,
                 microtask, localStorage, connectedFor>>
  /\ UNCHANGED <<chatVars, products, productWrites, lastFetched, fetchOutcome,
                 productForm, productNotice, pureVars, otherVars>>

(***************************************************************************)
(* createWhatsAppInstance (script.js:212-270)                              *)
(***************************************************************************)
CreateClick(name) ==
  /\ Ready
  /\ IF name = ""
     THEN /\ lastStep' = "alert"
          /\ UNCHANGED inflight
     ELSE /\ Pending(inflight) < MaxInflight
          /\ inflight' = Add(inflight, <<"create", name>>)
          /\ lastStep' = "other"
  /\ UNCHANGED <<waCurrentInstance, waCurrentToken, waPollInterval, activeTimers,
                 hidden, qrLib, statusText, imgDisplay, drawerDisplay,
                 microtask, page, localStorage, connectedFor>>
  /\ UNCHANGED <<chatVars, prodVars, pureVars, otherVars>>

persistWhatsAppInstance(store, inst, tok) ==
  [k \in StorageKeys |->
     IF k = "wa_instance" /\ Truthy(inst) THEN inst
     ELSE IF k = "wa_token" /\ Truthy(tok) THEN tok
     ELSE store[k]]

CreateFails(name, why) ==
  /\ Ready
  /\ inflight[<<"create", name>>] > 0
  /\ inflight' = Del(inflight, <<"create", name>>)
  /\ lastStep' = "alert"
  /\ UNCHANGED <<waCurrentInstance, waCurrentToken, waPollInterval, activeTimers,
                 hidden, qrLib, statusText, imgDisplay, drawerDisplay,
                 microtask, page, localStorage, connectedFor>>
  /\ UNCHANGED <<chatVars, prodVars, pureVars, otherVars>>

CreateSucceeds(name, data) ==
  LET inst == Or(Or(Or(Get(data, "instanceId"), Get(data, "instance")),
                    Get(data, "name")), InstStr(name))
      tok == Get(data, "token")
      c == Or(Get(data, "connect"), Obj(<< >>))
      rawState == Or(Or(Or(Or(Get(c, "status"), Get(c, "state")),
                           Get(data, "status")), Get(data, "state")),
                     Str(S_connecting))
      initialQr == Or(extractQrFrom(c), extractQrFrom(data))
      r == renderQr(initialQr)
      polls == HasInstance(inst, tok)
      left == AddN(Del(inflight, <<"create", name>>), <<"canvas", "">>, r.canvas)
  IN /\ Ready
     /\ inflight[<<"create", name>>] > 0
     /\ waCurrentInstance' = inst
     /\ waCurrentToken' = tok
     /\ statusText' = friendlyState(rawState)
     /\ Show(r)
     /\ localStorage' = persistWhatsAppInstance(localStorage, inst, tok)
     /\ activeTimers' = clearInterval(activeTimers, waPollInterval)
     /\ inflight' = IF polls THEN Add(left, <<"status", "create">>) ELSE left
     /\ Pending(inflight') <= MaxInflight
     /\ microtask' = IF polls THEN "none" ELSE "createCont"
     /\ connectedFor' = Null
     /\ lastStep' = "other"
     /\ UNCHANGED <<waPollInterval, hidden, qrLib, page>>
     /\ UNCHANGED <<chatVars, prodVars, pureVars, otherVars>>

\* script.js:265, after the awaited updateWhatsAppStatus() has settled
CreateCont ==
  /\ page = "index"
  /\ microtask = "createCont"
  /\ FreeHandles # {}
  /\ waPollInterval' = NewHandle
  /\ activeTimers' = activeTimers \cup {NewHandle}
  /\ microtask' = "none"
  /\ lastStep' = "other"
  /\ UNCHANGED <<waCurrentInstance, waCurrentToken, hidden, qrLib, statusText,
                 imgDisplay, drawerDisplay, inflight, page,
                 localStorage, connectedFor>>
  /\ UNCHANGED <<chatVars, prodVars, pureVars, otherVars>>

(***************************************************************************)
(* updateWhatsAppStatus (script.js:273-321)                                *)
(***************************************************************************)
\* a timer installed by setInterval(updateWhatsAppStatus, 4000) fires
Tick ==
  /\ Ready
  /\ activeTimers # {}
  /\ IF HasInstance(waCurrentInstance, waCurrentToken)
     THEN /\ Pending(inflight) < MaxInflight
          /\ inflight' = Add(inflight, <<"status", "plain">>)
     ELSE UNCHANGED inflight
  /\ lastStep' = "tick"
  /\ UNCHANGED <<waCurrentInstance, waCurrentToken, waPollInterval, activeTimers,
                 hidden, qrLib, statusText, imgDisplay, drawerDisplay,
                 microtask, page, localStorage, connectedFor>>
  /\ UNCHANGED <<chatVars, prodVars, pureVars, otherVars>>

StatusFailsHidesQr(origin, why) ==
  /\ Ready
  /\ inflight[<<"status", origin>>] > 0
  /\ inflight' = Del(inflight, <<"status", origin>>)
  /\ microtask' = AfterUpdate(origin)
  /\ lastStep' = "statusFail"
  /\ Show(renderQr(Null))
  /\ UNCHANGED <<waCurrentInstance, waCurrentToken, waPollInterval, activeTimers,
                 hidden, qrLib, statusText, page, localStorage, connectedFor>>
  /\ UNCHANGED <<chatVars, prodVars, pureVars, otherVars>>

StatusFails(origin, why) ==
  /\ Ready
  /\ inflight[<<"status", origin>>] > 0
  /\ inflight' = Del(inflight, <<"status", origin>>)
  /\ microtask' = AfterUpdate(origin)
  /\ lastStep' = "statusFail"
  /\ UNCHANGED <<waCurrentInstance, waCurrentToken, waPollInterval, activeTimers,
                 hidden, qrLib, statusText, imgDisplay, drawerDisplay,
                 page, localStorage, connectedFor>>
  /\ UNCHANGED <<chatVars, prodVars, pureVars, otherVars>>

RawStateOf(data) ==
  LET in == Get(data, "instance")
      co == Get(data, "connect")
      se == Get(data, "session")
  IN Or(Or(Or(Or(Get(data, "status"), Get(data, "state")),
              And(in, Or(Get(in, "status"), Get(in, "state")))),
           And(co, Or(Get(co, "status"), Get(co, "state")))),
        And(se, Or(Get(se, "status"), Get(se, "state"))))

IsConnected(rawState) ==
  \/ rawState.t = "str" /\ toLowerCase(rawState.s) = S_connected
  \/ /\ Truthy(rawState)
     /\ Get(rawState, "connected") = Bool(TRUE)
     /\ Get(rawState, "loggedIn") # Bool(FALSE)

QrFromStatus(data) ==
  Or(Or(extractQrFrom(data), extractQrFrom(Or(Get(data, "connect"), Obj(<< >>)))),
     extractQrFrom(Or(Get(data, "session"), Obj(<< >>))))

StatusConnected(origin, data) ==
  /\ Ready
  /\ inflight[<<"status", origin>>] > 0
  /\ IsConnected(RawStateOf(data))
  /\ statusText' = friendlyState(RawStateOf(data))
  /\ activeTimers' = clearInterval(activeTimers, waPollInterval)
  /\ Show(renderQr(Null))
  /\ inflight' = Del(inflight, <<"status", origin>>)
  /\ microtask' = AfterUpdate(origin)
  /\ connectedFor' = waCurrentInstance
  /\ lastStep' = "statusConnected"
  /\ UNCHANGED <<waCurrentInstance, waCurrentToken, waPollInterval, hidden,
                 qrLib, page, localStorage>>
  /\ UNCHANGED <<chatVars, prodVars, pureVars, otherVars>>

\* whether updateWhatsAppStatus goes on to call tryFetchQrFallback, and
\* whether tryFetchQrFallback then sends its first request (script.js:159)
WantsFallback(data) ==
  /\ ~Truthy(QrFromStatus(data))
  /\ friendlyState(RawStateOf(data)) = Str(S_waiting_qr)
SendsFallbackAnyState(data) ==
  ~Truthy(QrFromStatus(data)) /\ HasInstance(waCurrentInstance, waCurrentToken)
SendsFallback(data) ==
  WantsFallback(data) /\ HasInstance(waCurrentInstance, waCurrentToken)

StatusNotConnected(origin, data) ==
  LET qr == QrFromStatus(data)
      r == renderQr(qr)
      left == Del(inflight, <<"status", origin>>)
  IN /\ Ready
     /\ inflight[<<"status", origin>>] > 0
     /\ ~IsConnected(RawStateOf(data))
     /\ statusText' = friendlyState(RawStateOf(data))
     /\ IF SendsFallback(data)
        THEN /\ inflight' = Add(left, <<"fb1", origin>>)
             /\ microtask' = "none"
             /\ UNCHANGED <<imgDisplay, drawerDisplay>>
        ELSE /\ inflight' = AddN(left, <<"canvas", "">>, r.canvas)
             /\ microtask' = AfterUpdate(origin)
             /\ Show(r)
     /\ lastStep' = IF HoldsQr(data) THEN "statusQr" ELSE "statusNoQr"
     /\ UNCHANGED <<waCurrentInstance, waCurrentToken, waPollInterval,
                    activeTimers, hidden, qrLib, page, localStorage, connectedFor>>
     /\ UNCHANGED <<chatVars, prodVars, pureVars, otherVars>>

(***************************************************************************)
(* tryFetchQrFallback (script.js:158-174), one awaited request at a time,  *)
(* and the renderQr(qrFallback) that follows it (script.js:313-314)        *)
(***************************************************************************)
\* the QR a fallback answer yields: !r.ok and a rejected fetch yield none,
\* an unparsable body is read as {}
FallbackQr(answer) ==
  IF answer \in Failures THEN Null ELSE extractQrFrom(answer)

FallbackYields(stage, origin, answer) ==
  LET r == renderQr(FallbackQr(answer))
  IN /\ Ready
     /\ inflight[<<stage, origin>>] > 0
     /\ Truthy(FallbackQr(answer))
     /\ Show(r)
     /\ inflight' = AddN(Del(inflight, <<stage, origin>>), <<"canvas", "">>, r.canvas)
     /\ microtask' = AfterUpdate(origin)
     /\ lastStep' = IF HoldsQr(answer) THEN "fbQr" ELSE "fbNoQr"
     /\ UNCHANGED <<waCurrentInstance, waCurrentToken, waPollInterval,
                    activeTimers, hidden, qrLib, statusText, page, localStorage,
                    connectedFor>>
     /\ UNCHANGED <<chatVars, prodVars, pureVars, otherVars>>

FallbackFirstEmpty(origin, answer) ==
  /\ Ready
  /\ inflight[<<"fb1", origin>>] > 0
  /\ ~Truthy(FallbackQr(answer))
  /\ inflight' = Add(Del(inflight, <<"fb1", origin>>), <<"fb2", origin>>)
  /\ lastStep' = IF HoldsQr(answer) THEN "fbQr" ELSE "fbNoQr"
  /\ UNCHANGED <<waCurrentInstance, waCurrentToken, waPollInterval, activeTimers,
                 hidden, qrLib, statusText, imgDisplay, drawerDisplay,
                 microtask, page, localStorage, connectedFor>>
  /\ UNCHANGED <<chatVars, prodVars, pureVars, otherVars>>

FallbackSecondEmpty(origin, answer) ==
  /\ Ready
  /\ inflight[<<"fb2", origin>>] > 0
  /\ ~Truthy(FallbackQr(answer))
  /\ Show(renderQr(Null))
  /\ inflight' = Del(inflight, <<"fb2", origin>>)
  /\ microtask' = AfterUpdate(origin)
  /\ lastStep' = IF HoldsQr(answer) THEN "fbQr" ELSE "fbNoQr"
  /\ UNCHANGED <<waCurrentInstance, waCurrentToken, waPollInterval, activeTimers,
                 hidden, qrLib, statusText, page, localStorage, connectedFor>>
  /\ UNCHANGED <<chatVars, prodVars, pureVars, otherVars>>

\* the callback QRCode.toCanvas was given in drawQrInto (script.js:91-99)
CanvasCallback(err) ==
  /\ Ready
  /\ inflight[<<"canvas", "">>] > 0
  /\ inflight' = Del(inflight, <<"canvas", "">>)
  /\ drawerDisplay' = IF err THEN "none" ELSE "block"
  /\ lastStep' = "other"
  /\ UNCHANGED <<waCurrentInstance, waCurrentToken, waPollInterval, activeTimers,
                 hidden, qrLib, statusText, imgDisplay, microtask, page,
                 localStorage, connectedFor>>
  /\ UNCHANGED <<chatVars, prodVars, pureVars, otherVars>>

(***************************************************************************)
(* visibilitychange handler (script.js:1628-1637)                          *)
(***************************************************************************)
VisibilityChange ==
  /\ Ready
  /\ hidden' = ~hidden
  /\ IF hidden'
     THEN IF waPollInterval # 0
          THEN /\ activeTimers' = clearInterval(activeTimers, waPollInterval)
               /\ waPollInterval' = 0
          ELSE UNCHANGED <<activeTimers, waPollInterval>>
     ELSE IF HasInstance(waCurrentInstance, waCurrentToken) /\ waPollInterval = 0
          THEN /\ FreeHandles # {}
               /\ waPollInterval' = NewHandle
               /\ activeTimers' = activeTimers \cup {NewHandle}
          ELSE UNCHANGED <<activeTimers, waPollInterval>>
  /\ lastStep' = "other"
  /\ UNCHANGED <<waCurrentInstance, waCurrentToken, qrLib, statusText,
                 imgDisplay, drawerDisplay, inflight, microtask, page,
                 localStorage, connectedFor>>
  /\ UNCHANGED <<chatVars, prodVars, pureVars, otherVars>>

(***************************************************************************)
(* sendWhatsAppTest (script.js:378-411)                                    *)
(***************************************************************************)
SendTestClick(filled) ==
  /\ Ready
  /\ IF HasInstance(waCurrentInstance, waCurrentToken) /\ filled
     THEN /\ Pending(inflight) < MaxInflight
          /\ inflight' = Add(inflight, <<"sendTest", "">>)
          /\ lastStep' = "other"
     ELSE /\ UNCHANGED inflight
          /\ lastStep' = "alert"
  /\ UNCHANGED <<waCurrentInstance, waCurrentToken, waPollInterval, activeTimers,
                 hidden, qrLib, statusText, imgDisplay, drawerDisplay,
                 microtask, page, localStorage, connectedFor>>
  /\ UNCHANGED <<chatVars, prodVars, pureVars, otherVars>>

\* answer: "sent", "disconnected" (503 with /disconnected/i in the text),
\* or "failed" (any other non-OK answer, or a rejected fetch)
SendTestResponse(answer) ==
  LET polls == answer = "disconnected" /\ HasInstance(waCurrentInstance, waCurrentToken)
      left == Del(inflight, <<"sendTest", "">>)
  IN /\ Ready
     /\ inflight[<<"sendTest", "">>] > 0
     /\ inflight' = IF polls THEN Add(left, <<"status", "plain">>) ELSE left
     /\ lastStep' = "alert"
     /\ UNCHANGED <<waCurrentInstance, waCurrentToken, waPollInterval,
                    activeTimers, hidden, qrLib, statusText, imgDisplay,
                    drawerDisplay, microtask, page, localStorage, connectedFor>>
     /\ UNCHANGED <<chatVars, prodVars, pureVars, otherVars>>

(***************************************************************************)
(* saveAgentConfig (script.js:1207-1219) and logout (script.js:710-718)    *)
(***************************************************************************)
saveAgentConfig(named) ==
  /\ Ready
  /\ localStorage' = IF named THEN [localStorage EXCEPT !["agentConfig"] = SomeValue]
                     ELSE localStorage
  /\ lastStep' = "other"
  /\ UNCHANGED <<waCurrentInstance, waCurrentToken, waPollInterval, activeTimers,
                 hidden, qrLib, statusText, imgDisplay, drawerDisplay,
                 inflight, microtask, page, connectedFor>>
  /\ UNCHANGED <<chatVars, prodVars, pureVars, otherVars>>

removeCredentialsButName(store) ==
  [k \in StorageKeys |-> IF k \in CredKeys \ {"user_name"} THEN Null ELSE store[k]]

removeCredentials(store) ==
  [k \in StorageKeys |-> IF k \in CredKeys THEN Null ELSE store[k]]

\* window.location.href = 'login.html' unloads the dashboard: its timers,
\* pending callbacks and script state go with the document
logout ==
  /\ Ready
  /\ localStorage' = removeCredentials(localStorage)
  /\ page' = "login"
  /\ waCurrentInstance' = Null
  /\ waCurrentToken' = Null
  /\ waPollInterval' = 0
  /\ activeTimers' = {}
  /\ statusText' = Null
  /\ imgDisplay' = "none"
  /\ drawerDisplay' = "none"
  /\ inflight' = NoRequests
  /\ connectedFor' = Null
  /\ lastStep' = "other"
  /\ UNCHANGED <<hidden, qrLib, microtask>>
  /\ UNCHANGED <<chatVars, prodVars, pureVars, otherVars>>

(***************************************************************************)
(* Products: fetchProducts (script.js:417-454) and the handlers that call  *)
(* it after a write (addProduct 896-936, saveEditProduct 1019-1033,        *)
(* removeProduct 1034-1041)                                                *)
(***************************************************************************)
MaxProductReqs == 3   \* product requests pending at the same time

I1 == Obj(<< <<"id", Num(1)>>, <<"title", Str(<<"a">>)>>, <<"price_cents", Num(1250)>> >>)
I2 == Obj(<< <<"id", Num(2)>>, <<"title", Str(<<"b">>)>> >>)

\* bodies GET /api/products may answer with
ProductBodies ==
  LET I3 == Obj(<< <<"id", Num(3)>>, <<"title", Str(<<"c">>)>>, <<"price_cents", Num(1205)>> >>)
      I4 == Obj(<< <<"id", Num(4)>>, <<"title", Str(<<"d">>)>>, <<"price_cents", Num(0)>> >>)
      I5 == Obj(<< <<"id", Num(5)>>, <<"title", Str(<<"e">>)>>, <<"price_cents", Num(7)>> >>)
  IN {
  Obj(<< <<"items", Arr(<< >>)>> >>),
  Obj(<< <<"items", Arr(<<I1>>)>> >>),
  Obj(<< <<"items", Arr(<<I1, I2>>)>> >>),
  Obj(<< <<"items", Arr(<<I3, I4>>)>> >>),
  Obj(<< <<"items", Arr(<<I5>>)>> >>),
  Obj(<< >>),
  Obj(<< <<"items", Arr(<<I1, Null>>)>> >>),
  Null }

WriteKinds == {"upload", "create", "update", "delete"}
NoWrites == [k \in WriteKinds |-> 0]
ProductPending ==
  productFetches + productWrites["upload"] + productWrites["create"]
  + productWrites["update"] + productWrites["delete"]

\* the catch branch of fetchProducts (script.js:450-453)
fetchProductsCatchClears(ps) == << >>
fetchProductsCatch(ps) == ps

FetchProductsSucceeds(data) ==
  /\ Ready
  /\ productFetches > 0
  /\ ~MapThrows(data)
  /\ products' = MapItems(data)
  /\ table' = updateProductTable(products')
  /\ lastFetched' = MapItems(data)
  /\ fetchOutcome' = "ok"
  /\ productFetches' = productFetches - 1
  /\ UNCHANGED <<waVars, chatVars, productWrites, productForm, productNotice,
                 pureVars, otherVars>>

\* answer: a failure of the request, or a body the mapping throws on
FetchProductsFails(answer) ==
  /\ Ready
  /\ productFetches > 0
  /\ answer \in Failures \/ MapThrows(answer)
  /\ products' = fetchProductsCatch(products)
  /\ table' = updateProductTable(products')
  /\ fetchOutcome' = "failed"
  /\ productFetches' = productFetches - 1
  /\ UNCHANGED <<waVars, chatVars, productWrites, lastFetched, productForm,
                 productNotice, pureVars, otherVars>>

\* the user types into #product-form or empties it
EditProductForm(filled) ==
  /\ Ready
  /\ productForm' = filled
  /\ UNCHANGED <<waVars, chatVars, products, table, productFetches,
                 productWrites, lastFetched, fetchOutcome, productNotice,
                 pureVars, otherVars>>

\* valid: name, price and description pass the checks (script.js:897-899)
addProduct(valid, withImage) ==
  /\ Ready
  /\ valid => productForm
  /\ IF valid
     THEN /\ ProductPending < MaxProductReqs
          /\ productWrites' = [productWrites EXCEPT
                                 ![IF withImage THEN "upload" ELSE "create"] = @ + 1]
          /\ UNCHANGED productNotice
     ELSE /\ productNotice' = "warning"
          /\ UNCHANGED productWrites
  /\ UNCHANGED <<waVars, chatVars, products, table, productFetches, lastFetched,
                 fetchOutcome, productForm, pureVars, otherVars>>

\* uploadImage settles (script.js:901-910): on failure addProduct notifies and
\* returns, on success it goes on to createProductOnBackend
UploadSettles(ok) ==
  /\ Ready
  /\ productWrites["upload"] > 0
  /\ productWrites' = IF ok
                      THEN [productWrites EXCEPT !["upload"] = @ - 1, !["create"] = @ + 1]
                      ELSE [productWrites EXCEPT !["upload"] = @ - 1]
  /\ productNotice' = IF ok THEN productNotice ELSE "danger"
  /\ UNCHANGED <<waVars, chatVars, products, table, productFetches, lastFetched,
                 fetchOutcome, productForm, pureVars, otherVars>>

saveEditProduct(named) ==
  /\ Ready
  /\ IF named
     THEN /\ ProductPending < MaxProductReqs
          /\ productWrites' = [productWrites EXCEPT !["update"] = @ + 1]
          /\ UNCHANGED productNotice
     ELSE /\ productNotice' = "warning"
          /\ UNCHANGED productWrites
  /\ UNCHANGED <<waVars, chatVars, products, table, productFetches, lastFetched,
                 fetchOutcome, productForm, pureVars, otherVars>>

removeProduct(confirmed) ==
  /\ Ready
  /\ IF confirmed
     THEN /\ ProductPending < MaxProductReqs
          /\ productWrites' = [productWrites EXCEPT !["delete"] = @ + 1]
     ELSE UNCHANGED productWrites
  /\ UNCHANGED <<waVars, chatVars, products, table, productFetches, lastFetched,
                 fetchOutcome, productForm, productNotice, pureVars, otherVars>>

\* the handler calls fetchProducts() after its write (script.js:935, 1032, 1039)
refetchOnlyAfterSuccess(n, ok) == IF ok THEN n + 1 ELSE n
refetch(n, ok) == n + 1

\* createProductOnBackend, updateProductOnBackend or deleteProductOnBackend
\* has returned (they catch every failure and return null or false); the
\* handler notifies, addProduct resets the form (form.reset(), script.js:934),
\* and fetchProducts() is called
WriteSettles(kind, ok) ==
  /\ Ready
  /\ productWrites[kind] > 0
  /\ productWrites' = [productWrites EXCEPT ![kind] = @ - 1]
  /\ productNotice' = IF ~ok THEN "danger"
                      ELSE IF kind = "delete" THEN "info" ELSE "success"
  /\ productForm' = IF kind = "create" THEN FALSE ELSE productForm
  /\ productFetches' = refetch(productFetches, ok)
  /\ UNCHANGED <<waVars, chatVars, products, table, lastFetched, fetchOutcome,
                 pureVars, otherVars>>

(***************************************************************************)
(* Chatbot (script.js:1239-1584)                                           *)
(***************************************************************************)
maxHistory == 20
MaxPushes == 22      \* entries pushed before the memory is cleared
MaxOdd == 1          \* entries in memory other than a message or its reply

MSG == Str(<<"m">>)
REPLY == Str(<<"r">>)
IMG_REPLY == Str(<<"r", "i">>)
OK_TEXT == Str(<<"OK.">>)
IMG_TEXT == Str(<<"Imagem recebida.">>)
ERRO == Str(<<"[erro]">>)
ERRO_IMAGEM == Str(<<"[erro imagem]">>)
MaxChatReqs == 2     \* chat requests the model lets be in flight

\* bodies POST /api/chat and POST /api/vision/upload may answer with
ChatBodies == {
  Obj(<< <<"reply", REPLY>> >>),
  Obj(<< <<"choices", Arr(<< Obj(<< <<"message", Obj(<< <<"content", REPLY>> >>)>> >>) >>)>>,
         <<"product", Bool(TRUE)>> >>),
  Obj(<< >>),
  Null }
ImageBodies == { Obj(<< <<"output", IMG_REPLY>> >>), Obj(<< >>) }

OddEntries(h) == Cardinality({i \in 1..Len(h) : h[i].content \notin {MSG, REPLY}})

\* array.slice(-n)
sliceLast(a, n) == SubSeq(a, IF Len(a) > n THEN Len(a) - n + 1 ELSE 1, Len(a))

pushHistoryKeepsOldest(h, role, content, ts) ==
  LET a == Append(h, [role |-> role, content |-> content, ts |-> ts])
  IN IF Len(a) > maxHistory THEN SubSeq(a, 1, maxHistory) ELSE a

\* _pushHistory (script.js:1375-1378)
pushHistory(h, role, content, ts) ==
  LET a == Append(h, [role |-> role, content |-> content, ts |-> ts])
  IN IF Len(a) > maxHistory THEN sliceLast(a, maxHistory) ELSE a

\* the text shown for an answer (script.js:1446-1448, 1529-1531)
ReplyText(data, default) ==
  LET c0 == At(Get(data, "choices"), 0)
      msg == Get(c0, "message")
      choice == And(And(And(Get(data, "choices"), c0), msg), Get(msg, "content"))
      any == Or(Or(Or(Or(Or(Get(data, "reply"), Get(data, "output")),
                         Get(data, "message")), Get(data, "text")),
                   Get(data, "content")), choice)
  IN Or(And(data, any), default)

\* the change handler of the image input (script.js:1306-1318)
SelectImage(valid) ==
  /\ Ready
  /\ pendingImageFile' = IF valid THEN TRUE ELSE pendingImageFile
  /\ UNCHANGED <<waVars, history, isTyping, chatReq, pushes, chatInflight,
                 sendDisabled, prodVars, pureVars, otherVars>>

\* the click handler of the remove button (script.js:1320-1323)
RemoveAttachment ==
  /\ Ready
  /\ pendingImageFile' = FALSE
  /\ UNCHANGED <<waVars, history, isTyping, chatReq, pushes, chatInflight,
                 sendDisabled, prodVars, pureVars, otherVars>>

\* the guards of sendMessage (script.js:1385-1388)
PassesGuardsWhileTyping(text) == text \/ pendingImageFile
PassesGuards(text) == ~isTyping /\ (text \/ pendingImageFile)

\* sendMessage up to its first await; text: the input holds a message;
\* showTypingIndicator (script.js:1543-1564) sets isTyping and disables the
\* send button
sendMessage(text) ==
  /\ Ready
  /\ IF ~PassesGuards(text)
     THEN UNCHANGED chatVars
     ELSE /\ pushes + 2 <= MaxPushes
          /\ chatInflight < MaxChatReqs
          /\ chatInflight' = chatInflight + 1
          /\ sendDisabled' = TRUE
          /\ pendingImageFile => OddEntries(history) < MaxOdd
          /\ history' = IF text THEN pushHistory(history, "user", MSG, pushes)
                        ELSE history
          /\ pushes' = IF text THEN pushes + 1 ELSE pushes
          /\ isTyping' = TRUE
          /\ chatReq' = IF pendingImageFile THEN "image" ELSE "text"
          /\ pendingImageFile' = FALSE
  /\ UNCHANGED <<waVars, prodVars, pureVars, otherVars>>

\* the answer of POST /api/chat arrives (script.js:1437-1458)
ChatResponse(answer) ==
  LET failed == answer \in Failures
      text == IF failed THEN ERRO ELSE ReplyText(answer, OK_TEXT)
      refresh == ~failed /\ Truthy(And(answer, Get(answer, "product")))
  IN /\ Ready
     /\ chatReq = "text"
     /\ chatInflight' = chatInflight - 1
     /\ sendDisabled' = FALSE
     /\ text \notin {MSG, REPLY} => OddEntries(history) < MaxOdd
     /\ refresh => ProductPending < MaxProductReqs
     /\ isTyping' = FALSE
     /\ chatReq' = "none"
     /\ history' = pushHistory(history, "assistant", text, pushes)
     /\ pushes' = pushes + 1
     /\ productFetches' = IF refresh THEN productFetches + 1 ELSE productFetches
     /\ UNCHANGED <<waVars, pendingImageFile, products, table, productWrites,
                    lastFetched, fetchOutcome, productForm, productNotice,
                    pureVars, otherVars>>

\* a vision answer that settles without an assistant entry
ImageResponseSilent(answer) ==
  /\ Ready
  /\ chatReq = "image"
  /\ chatInflight' = chatInflight - 1
  /\ sendDisabled' = FALSE
  /\ isTyping' = FALSE
  /\ chatReq' = "none"
  /\ UNCHANGED <<waVars, history, pushes, pendingImageFile, prodVars, pureVars,
                 otherVars>>

\* the answer of POST /api/vision/upload arrives (script.js:1522-1540)
ImageResponse(answer) ==
  LET text == IF answer \in Failures THEN ERRO_IMAGEM
              ELSE ReplyText(answer, IMG_TEXT)
  IN /\ Ready
     /\ chatReq = "image"
     /\ chatInflight' = chatInflight - 1
     /\ sendDisabled' = FALSE
     /\ isTyping' = FALSE
     /\ chatReq' = "none"
     /\ history' = pushHistory(history, "assistant", text, pushes)
     /\ pushes' = pushes + 1
     /\ UNCHANGED <<waVars, pendingImageFile, prodVars, pureVars, otherVars>>

\* the clock is read only to order the entries in memory, so it may start
\* anew once the memory is empty
clearMemory ==
  /\ Ready
  /\ history' = << >>
  /\ pushes' = 0
  /\ UNCHANGED <<waVars, isTyping, pendingImageFile, chatReq, chatInflight,
                 sendDisabled, prodVars, pureVars, otherVars>>

(***************************************************************************)
(* Login page (auth.js).  A path or URL is a sequence of its '/x' parts.   *)
(***************************************************************************)
BASE == "https://backend"

\* the candidate lists of HelsenAuth.login and HelsenAuth.register
\* (auth.js:173-180, 189-196)
AuthPaths(flow, prefix) ==
  IF flow = "login"
  THEN << prefix \o <<"/auth", "/login">>, prefix \o <<"/login">>,
          prefix \o <<"/users", "/login">>, prefix \o <<"/sessions">>,
          <<"/api", "/auth", "/login">>, <<"/api", "/login">> >>
  ELSE << prefix \o <<"/auth", "/register">>, prefix \o <<"/register">>,
          prefix \o <<"/users">>, prefix \o <<"/signup">>,
          <<"/api", "/auth", "/register">>, <<"/api", "/register">> >>

\* the URL tryAuthEndpoints posts to for path p (auth.js:48); every part of a
\* path but BASE starts with '/'
AuthUrl(p, prefix) ==
  IF p # << >> /\ p[1] = BASE THEN p
  ELSE IF p # << >> THEN <<BASE>> \o p
  ELSE <<BASE>> \o prefix \o p

\* answers of the authentication endpoints: a failure (fetch rejects, times
\* out, or the status is not OK) or the parsed body; a body that is no JSON
\* becomes {message: text} (auth.js:89-102)
AuthFailures == {Fail("reject"), Fail("notOk")}
AuthBodies == {
  Obj(<< <<"token", Str(<<"t">>)>>, <<"user", Obj(<< <<"name", Str(<<"n">>)>> >>)>> >>),
  Obj(<< <<"data", Obj(<< <<"jwt", Str(<<"t">>)>> >>)>> >>),
  Obj(<< <<"user", Obj(<< <<"email", Str(<<"e">>)>> >>)>> >>),
  Obj(<< <<"message", Str(<<"ok">>)>> >>),
  Obj(<< >>),
  Null }

\* extractToken (auth.js:110-113) for a body that is an object
extractToken(data) ==
  LET TokenOf(d) == Or(Or(Get(d, "token"), Get(d, "jwt")), Get(d, "access_token"))
  IN Or(Or(Or(TokenOf(data),
              And(Get(data, "data"), TokenOf(Get(data, "data")))),
           And(Get(data, "user"), TokenOf(Get(data, "user")))),
        Null)

\* what an answer is to the code that awaits it: "error" when the request
\* fails or extractToken throws on a null body, "token" when extractToken
\* finds one (auth.js:55-57, 244-246, 297-306)
AnswerKind(answer) ==
  IF answer \in AuthFailures \/ answer.t \in {"null", "undefined"} THEN "error"
  ELSE IF Truthy(extractToken(answer)) THEN "token" ELSE "notoken"

\* whether an answer lets tryAuthEndpoints return (auth.js:56-57)
YieldsTokenAnyOk(answer) == AnswerKind(answer) # "error"
YieldsToken(answer) == AnswerKind(answer) = "token"

\* saveAuthData (auth.js:129-153): it throws before the first setItem when
\* the body holds no token; the keys tax_id and remember_email are left out
\* of the storage modelled here
saveAuthDataUnchecked(store, data) ==
  [k \in StorageKeys |->
     IF k = "token" THEN extractToken(data)
     ELSE IF k \in {"org_id", "flow_id"} THEN SomeValue
     ELSE store[k]]
saveAuthData(store, data) ==
  LET u == Get(data, "user")
      userName == Or(Or(Or(Get(data, "name"), Get(data, "username")),
                        And(u, Or(Or(Get(u, "name"), Get(u, "username")),
                                  Get(u, "email")))),
                     Str(<< >>))
  IN IF ~Truthy(extractToken(data)) THEN store
     ELSE [k \in StorageKeys |->
             IF k = "token" THEN extractToken(data)
             ELSE IF k \in {"org_id", "flow_id"} THEN SomeValue
             ELSE IF k = "user_name" /\ Truthy(userName) THEN userName
             ELSE store[k]]

\* the submit event: alreadyHandled (auth.js:208-212) lets the body of the
\* handler run once per event
alreadyHandled(e) ==
  IF e.handled THEN e ELSE [e EXCEPT !.handled = TRUE, !.runs = @ + 1]

\* the capture-phase wrappers captureLoginWrapper and captureRegisterWrapper
\* (auth.js:330-344), the same code for either form
captureWrapperUnguarded(e) == [e EXCEPT !.runs = @ + 1]
captureLoginWrapper(e) == alreadyHandled([e EXCEPT !.stopped = TRUE])

\* the listeners of the form in the order the event reaches them: the
\* capture wrapper (auth.js:351, 355), then the plain listener (auth.js:367-368)
\* unless stopImmediatePropagation was called
DispatchSubmit ==
  LET e1 == captureLoginWrapper([handled |-> FALSE, stopped |-> FALSE, runs |-> 0])
  IN (IF e1.stopped THEN e1 ELSE alreadyHandled(e1)).runs

InitAuthIdle ==
  /\ apiPrefix = <<"/api">>
  /\ view = "login"
  /\ errShown = FALSE
  /\ authFlow = "none"
  /\ authStep = 0
  /\ posts = << >>
  /\ lastAnswer = "none"
  /\ accepted = FALSE
  /\ bodyRuns = 0

\* the user shows the other form
ShowForm(v) ==
  /\ page = "login"
  /\ view' = v
  /\ UNCHANGED <<apiPrefix, errShown, authFlow, authStep, posts, lastAnswer,
                 accepted, bodyRuns>>
  /\ UNCHANGED <<waVars, chatVars, prodVars, pureVars, convVars, cnpjVars>>

\* a submit event of the form on display, up to the first await of
\* handleLogin / handleRegister (auth.js:215-234, 257-288); the submit button
\* is disabled while an answer is awaited (auth.js:66-70)
\* filled: the fields pass the checks (auth.js:227, 274-281)
Submit(filled) ==
  /\ page = "login"
  /\ authStep = 0
  /\ bodyRuns' = DispatchSubmit
  /\ IF bodyRuns' = 0
     THEN UNCHANGED <<errShown, authFlow, authStep, posts, lastAnswer, accepted>>
     ELSE IF ~filled
     THEN /\ errShown' = TRUE
          /\ UNCHANGED <<authFlow, authStep, posts, lastAnswer, accepted>>
     ELSE /\ errShown' = FALSE
          /\ authFlow' = view
          /\ authStep' = 1
          /\ posts' = << AuthUrl(AuthPaths(view, apiPrefix)[1], apiPrefix) >>
          /\ lastAnswer' = "none"
          /\ accepted' = FALSE
  /\ UNCHANGED <<apiPrefix, view>>
  /\ UNCHANGED <<waVars, chatVars, prodVars, pureVars, convVars, cnpjVars>>

\* tryAuthEndpoints: the answer of the path it awaits arrives (auth.js:46-63)
tryAuthEndpoints(answer) ==
  LET paths == AuthPaths(authFlow, apiPrefix)
  IN /\ page = "login"
     /\ authStep \in 1..Len(paths)
     /\ lastAnswer' = AnswerKind(answer)
     /\ accepted' = (accepted \/ AnswerKind(answer) = "notoken")
     /\ IF YieldsToken(answer)
        THEN \* HelsenAuth.login / register: saveAuthData, then the handler leaves
             /\ localStorage' = saveAuthData(localStorage, answer)
             \* location.href = 'index.html'; finally setLoading(btn, false)
             /\ page' = "loading"
             /\ authStep' = 0
             /\ UNCHANGED posts
        ELSE IF authStep < Len(paths)
        THEN /\ authStep' = authStep + 1
             /\ posts' = Append(posts, AuthUrl(paths[authStep + 1], apiPrefix))
             /\ UNCHANGED <<page, localStorage>>
        ELSE \* it throws; the handler falls back to API('/auth/...')
             /\ authStep' = Len(paths) + 1
             /\ posts' = Append(posts, <<BASE>> \o apiPrefix \o
                                  <<"/auth", IF authFlow = "login" THEN "/login"
                                             ELSE "/register">>)
             /\ UNCHANGED <<page, localStorage>>
     /\ UNCHANGED <<apiPrefix, view, errShown, authFlow, bodyRuns>>
     /\ UNCHANGED <<waCurrentInstance, waCurrentToken, waPollInterval, activeTimers,
                    hidden, qrLib, statusText, imgDisplay, drawerDisplay,
                    inflight, microtask, connectedFor, lastStep>>
     /\ UNCHANGED <<chatVars, prodVars, pureVars, convVars, cnpjVars>>

\* the answer of the fallback request arrives (auth.js:237-248, 291-321)
AuthFallback(answer) ==
  /\ page = "login"
  /\ authStep = Len(AuthPaths(authFlow, apiPrefix)) + 1
  /\ lastAnswer' = AnswerKind(answer)
  /\ accepted' = (accepted \/ AnswerKind(answer) = "notoken")
  /\ authStep' = 0
  /\ CASE AnswerKind(answer) = "token" ->
            /\ localStorage' = saveAuthData(localStorage, answer)
            /\ page' = "loading"
            /\ UNCHANGED <<view, errShown>>
       [] AnswerKind(answer) = "notoken" /\ authFlow = "register" ->
            /\ view' = "login"
            /\ UNCHANGED <<page, localStorage, errShown>>
       [] AnswerKind(answer) = "notoken" /\ authFlow = "login" ->
            \* saveAuthData throws 'Resposta sem token' (auth.js:245, 131)
            /\ localStorage' = saveAuthData(localStorage, answer)
            /\ errShown' = TRUE
            /\ UNCHANGED <<page, view>>
       [] OTHER ->
            /\ errShown' = TRUE
            /\ UNCHANGED <<page, localStorage, view>>
  /\ UNCHANGED <<apiPrefix, authFlow, posts, bodyRuns>>
  /\ UNCHANGED <<waCurrentInstance, waCurrentToken, waPollInterval, activeTimers,
                 hidden, qrLib, statusText, imgDisplay, drawerDisplay,
                 inflight, microtask, connectedFor, lastStep>>
  /\ UNCHANGED <<chatVars, prodVars, pureVars, convVars, cnpjVars>>

(***************************************************************************)
(* Conversions: reaisToCents (script.js:978-986) and the API base shim     *)
(* that replaces window.fetch (part_001:10-83)                             *)
(***************************************************************************)
MaxReais == 12    \* largest amount of whole reais typed into a price field
MaxUrlLen == 4    \* parts of a URL handed to fetch

\* reaisToCents for a string given as its characters; parseFloat reads the
\* longest prefix of the form digits[.digits], and Math.round rounds the
\* hundredfold of it to the nearest integer
reaisToCents(value) ==
  IF value.t \in {"null", "undefined"} THEN 0
  ELSE
  LET noDots == SelectSeq(value.s, LAMBDA ch : ch # ".")
      commas == {k \in DOMAIN noDots : noDots[k] = ","}
      first == IF commas = {} THEN 0
               ELSE CHOOSE k \in commas : \A m \in commas : k <= m
      str == [k \in DOMAIN noDots |-> IF k = first THEN "." ELSE noDots[k]]
      IsDigit(ch) == \E d \in 1..10 : DigitChars[d] = ch
      Val(ch) == (CHOOSE d \in 1..10 : DigitChars[d] = ch) - 1
      \* number of leading digits of str from position k on
      RECURSIVE Run(_)
      Run(k) == IF k <= Len(str) /\ IsDigit(str[k]) THEN 1 + Run(k + 1) ELSE 0
      ni == Run(1)
      nf == IF ni < Len(str) /\ str[ni + 1] = "." THEN Run(ni + 2) ELSE 0
      RECURSIVE IntVal(_, _)
      IntVal(from, n) == IF n = 0 THEN 0
                         ELSE 10 * IntVal(from, n - 1) + Val(str[from + n - 1])
      Frac(i) == IF i <= nf THEN Val(str[ni + 1 + i]) ELSE 0
  IN IF value.s = << >> \/ ni + nf = 0 THEN 0
     ELSE 100 * IntVal(1, ni) + 10 * Frac(1) + Frac(2)
          + (IF Frac(3) >= 5 THEN 1 ELSE 0)

\* the price string of r reais and cc centavos with separator sep
PriceString(r, cc, sep) ==
  LET RECURSIVE Digits(_)
      Digits(n) == IF n < 10 THEN <<DigitChars[n + 1]>>
                   ELSE Append(Digits(n \div 10), DigitChars[(n % 10) + 1])
  IN Str(Digits(r) \o <<sep>> \o
         <<DigitChars[(cc \div 10) + 1], DigitChars[(cc % 10) + 1]>>)

\* a URL is the sequence of its parts; each part is one of these strings
UrlParts == {"/", "api/", "API/", "x", "https://", "h.railway.app"}
BACKEND_BASE == <<"https://", "h.railway.app">>
Urls(maxLen) == UNION {[1..n -> UrlParts] : n \in 0..maxLen}

\* normalizeApiPath (part_001:32-38)
normalizeApiPathNoCollapse(p) ==
  LET RECURSIVE Strip(_)
      Strip(q) == IF q # << >> /\ Head(q) = "/" THEN Strip(Tail(q)) ELSE q
  IN Strip(p)
normalizeApiPath(p) ==
  LET RECURSIVE Strip(_)
      Strip(q) == IF q # << >> /\ Head(q) = "/" THEN Strip(Tail(q)) ELSE q
      RECURSIVE DropApi(_)
      DropApi(q) == IF q # << >> /\ Head(q) \in {"api/", "API/"}
                    THEN DropApi(Tail(q)) ELSE q
      s == Strip(p)
  IN IF s # << >> /\ Head(s) \in {"api/", "API/"}
     THEN <<"api/">> \o DropApi(s) ELSE s

\* the URL the replaced window.fetch hands to the original fetch for a string
\* url (part_001:42-83)
shimFetch(url) ==
  LET \* /^[a-z0-9.-]+\.railway\.app\//i
      HostFirst == \E k \in 1..(Len(url) - 1) :
                     /\ \A m \in 1..(k - 1) : url[m] \in {"x", "h.railway.app"}
                     /\ url[k] = "h.railway.app"
                     /\ url[k + 1] = "/"
      \* /^\/?api\//i
      ApiFirst == \/ (Len(url) >= 1 /\ url[1] \in {"api/", "API/"})
                  \/ (Len(url) >= 2 /\ url[1] = "/" /\ url[2] \in {"api/", "API/"})
  IN IF url # << >> /\ url[1] = "https://" THEN url
     ELSE IF HostFirst THEN <<"https://">> \o url
     ELSE IF ApiFirst THEN BACKEND_BASE \o <<"/">> \o normalizeApiPath(url)
     ELSE url

(***************************************************************************)
(* Company panel: the CNPJ lookup buttons (script.js:629-669)              *)
(***************************************************************************)
MaxButtons == 3   \* elements of class company-cnpj-search-btn in the page
MaxLookups == 2   \* lookup requests the model lets be in flight

\* script.js:638-640: every button is disabled; the text of every button
\* but the compact ones (class d-sm-none) becomes 'Buscando...'
startLookupKeepsEnabled(buttons) ==
  [i \in DOMAIN buttons |->
     IF buttons[i].compact THEN buttons[i]
     ELSE [buttons[i] EXCEPT !.text = "Buscando..."]]
startLookup(buttons) ==
  [i \in DOMAIN buttons |->
     IF buttons[i].compact THEN [buttons[i] EXCEPT !.disabled = TRUE]
     ELSE [buttons[i] EXCEPT !.disabled = TRUE, !.text = "Buscando..."]]

\* the finally block (script.js:661-666)
finishLookup(buttons, originals) ==
  [i \in DOMAIN buttons |->
     IF buttons[i].compact THEN [buttons[i] EXCEPT !.disabled = FALSE]
     ELSE [buttons[i] EXCEPT !.disabled = FALSE,
                             !.text = IF originals[i] # "" THEN originals[i]
                                      ELSE "Buscar CNPJ"]]

InitCnpjIdle ==
  /\ cnpjButtons = << >>
  /\ originalTexts = << >>
  /\ cnpjLookups = 0
  /\ cnpjAlert = "none"
  /\ companyFilled = FALSE

\* click on search button i; a disabled button dispatches no click
\* valid: the CNPJ field holds 14 digits (script.js:635-637)
ClickSearch(i, valid) ==
  /\ Ready
  /\ i \in DOMAIN cnpjButtons
  /\ ~cnpjButtons[i].disabled
  /\ IF valid
     THEN /\ cnpjLookups < MaxLookups
          /\ cnpjButtons' = startLookup(cnpjButtons)
          \* originalTexts is read after the buttons are disabled and
          \* before their text is changed (script.js:639)
          /\ originalTexts' = [k \in DOMAIN cnpjButtons |-> cnpjButtons[k].text]
          /\ cnpjLookups' = cnpjLookups + 1
          /\ UNCHANGED cnpjAlert
     ELSE /\ cnpjAlert' = "invalid"
          /\ UNCHANGED <<cnpjButtons, originalTexts, cnpjLookups>>
  /\ UNCHANGED companyFilled
  /\ UNCHANGED <<waVars, chatVars, prodVars, pureVars, authVars, convVars>>

\* the answer of brasilapi.com.br arrives (script.js:641-667)
\* ok: the status is OK and the body is a JSON object
LookupSettles(ok) ==
  /\ Ready
  /\ cnpjLookups > 0
  /\ cnpjLookups' = cnpjLookups - 1
  /\ companyFilled' = (companyFilled \/ ok)
  /\ cnpjAlert' = IF ok THEN cnpjAlert ELSE "failed"
  /\ cnpjButtons' = finishLookup(cnpjButtons, originalTexts)
  /\ UNCHANGED originalTexts
  /\ UNCHANGED <<waVars, chatVars, prodVars, pureVars, authVars, convVars>>

(***************************************************************************)
(* Specifications                                                          *)
(***************************************************************************)
NotComputed == [t |-> "none"]

InitChatIdle ==
  /\ history = << >>
  /\ isTyping = FALSE
  /\ pendingImageFile = FALSE
  /\ chatReq = "none"
  /\ pushes = 0
  /\ chatInflight = 0
  /\ sendDisabled = FALSE
InitProdIdle ==
  /\ products = << >>
  /\ table = << >>
  /\ productFetches = 0
  /\ productWrites = NoWrites
  /\ lastFetched = << >>
  /\ fetchOutcome = "none"
  /\ productForm = FALSE
  /\ productNotice = "none"
InitPureIdle ==
  /\ qrIn = Null
  /\ qrOut = NotComputed
  /\ rawIn = Null
  /\ rawOut = NotComputed

InitConvIdle ==
  /\ centsIn = Null
  /\ centsOut = NotComputed
  /\ urlIn = Null
  /\ urlOut = NotComputed

Init ==
  InitWa /\ InitChatIdle /\ InitProdIdle /\ InitPureIdle /\ InitAuthIdle /\ InitConvIdle
  /\ InitCnpjIdle

\* the WhatsApp panel: every handler that touches the polling timer, the
\* status text or the QR display
Next ==
  \/ PageLoad
  \/ \E name \in Names \cup {""} : CreateClick(name)
  \/ \E name \in Names, why \in Failures : CreateFails(name, why)
  \/ \E name \in Names, tok \in BOOLEAN, extra \in CreateExtras :
       CreateSucceeds(name, CreateBody(tok, extra))
  \/ CreateCont
  \/ Tick
  \/ \E origin \in {"plain", "create"}, why \in Failures : StatusFails(origin, why)
  \/ \E origin \in {"plain", "create"}, data \in StatusBodies : StatusConnected(origin, data)
  \/ \E origin \in {"plain", "create"}, data \in StatusBodies : StatusNotConnected(origin, data)
  \/ \E stage \in {"fb1", "fb2"}, origin \in {"plain", "create"}, answer \in FallbackBodies :
       FallbackYields(stage, origin, answer)
  \/ \E origin \in {"plain", "create"}, answer \in FallbackBodies \cup Failures :
       FallbackFirstEmpty(origin, answer)
  \/ \E origin \in {"plain", "create"}, answer \in FallbackBodies \cup Failures :
       FallbackSecondEmpty(origin, answer)
  \/ \E err \in BOOLEAN : CanvasCallback(err)
  \/ VisibilityChange
  \/ \E filled \in BOOLEAN : SendTestClick(filled)
  \/ \E answer \in {"sent", "disconnected", "failed"} : SendTestResponse(answer)

Spec == Init /\ [][Next]_vars

\* the WhatsApp panel with the other handlers that write localStorage
NextSession ==
  \/ Next
  \/ \E named \in BOOLEAN : saveAgentConfig(named)
  \/ logout

\* localStorage is written the same way whether or not the QRCode library is
\* loaded; the session is followed with the library loaded
InitSession == Init /\ qrLib

SpecSession == InitSession /\ [][NextSession]_vars

\* a dashboard opened in the foreground with the QRCode library loaded and
\* no WhatsApp instance stored
InitForeground ==
  /\ Init
  /\ ~hidden
  /\ qrLib
  /\ localStorage["wa_instance"] = Null

\* the product panel
NextProducts ==
  \/ PageLoad
  \/ \E data \in ProductBodies : FetchProductsSucceeds(data)
  \/ \E answer \in ProductBodies \cup Failures : FetchProductsFails(answer)
  \/ \E filled \in BOOLEAN : EditProductForm(filled)
  \/ \E valid \in BOOLEAN, withImage \in BOOLEAN : addProduct(valid, withImage)
  \/ \E ok \in BOOLEAN : UploadSettles(ok)
  \/ \E named \in BOOLEAN : saveEditProduct(named)
  \/ \E confirmed \in BOOLEAN : removeProduct(confirmed)
  \/ \E kind \in {"create", "update", "delete"}, ok \in BOOLEAN : WriteSettles(kind, ok)

SpecProducts == InitForeground /\ [][NextProducts]_vars

\* the chat widget, with the product refresh an answer can ask for
NextChat ==
  \/ PageLoad
  \/ \E valid \in BOOLEAN : SelectImage(valid)
  \/ RemoveAttachment
  \/ \E text \in BOOLEAN : sendMessage(text)
  \/ \E answer \in ChatBodies \cup Failures : ChatResponse(answer)
  \/ \E answer \in ImageBodies \cup Failures : ImageResponse(answer)
  \/ clearMemory
  \/ FetchProductsSucceeds(Obj(<< <<"items", Arr(<< >>)>> >>))

SpecChat == InitForeground /\ [][NextChat]_vars

\* the login page, opened without credentials; window.__API_PREFIX__ may be the
\* default '/api' or empty (auth.js:16)
InitAuth ==
  /\ page = "login"
  /\ localStorage = NoStorage
  /\ waCurrentInstance = Null /\ waCurrentToken = Null /\ waPollInterval = 0
  /\ activeTimers = {} /\ hidden = FALSE /\ qrLib = TRUE /\ statusText = Null
  /\ imgDisplay = "none" /\ drawerDisplay = "none" /\ inflight = NoRequests
  /\ microtask = "none" /\ connectedFor = Null /\ lastStep = "other"
  /\ InitChatIdle /\ InitProdIdle /\ InitPureIdle /\ InitConvIdle /\ InitCnpjIdle
  /\ apiPrefix \in {<<"/api">>, << >>}
  /\ view = "login" /\ errShown = FALSE /\ authFlow = "none" /\ authStep = 0
  /\ posts = << >> /\ lastAnswer = "none" /\ accepted = FALSE /\ bodyRuns = 0

NextAuth ==
  \/ \E v \in {"login", "register"} : ShowForm(v)
  \/ \E filled \in BOOLEAN : Submit(filled)
  \/ \E answer \in AuthBodies \cup AuthFailures : tryAuthEndpoints(answer)
  \/ \E answer \in AuthBodies \cup AuthFailures : AuthFallback(answer)

SpecAuth == InitAuth /\ [][NextAuth]_vars

\* a price field is read (script.js:1024), or a URL is fetched
InitConv ==
  /\ page = "index"
  /\ localStorage \in InitStorages
  /\ waCurrentInstance = Null /\ waCurrentToken = Null /\ waPollInterval = 0
  /\ activeTimers = {} /\ hidden = FALSE /\ qrLib = TRUE /\ statusText = Null
  /\ imgDisplay = "none" /\ drawerDisplay = "none" /\ inflight = NoRequests
  /\ microtask = "none" /\ connectedFor = Null /\ lastStep = "other"
  /\ InitChatIdle /\ InitProdIdle /\ InitPureIdle /\ InitAuthIdle /\ InitCnpjIdle
  /\ centsOut = NotComputed
  /\ urlOut = NotComputed
  /\ \/ /\ centsIn \in {PriceString(r, cc, sep) :
                           r \in 0..MaxReais, cc \in 0..99, sep \in {",", "."}}
                        \cup {Str(<< >>), Null}
        /\ urlIn = Null
     \/ /\ centsIn = Null
        /\ urlIn \in {Str(u) : u \in Urls(MaxUrlLen)}

ReadPrice ==
  /\ urlIn = Null
  /\ centsOut = NotComputed
  /\ centsOut' = Num(reaisToCents(centsIn))
  /\ UNCHANGED <<waVars, chatVars, prodVars, pureVars, authVars, cnpjVars,
                 centsIn, urlIn, urlOut>>

Fetch ==
  /\ urlIn # Null
  /\ urlOut = NotComputed
  /\ urlOut' = Str(shimFetch(urlIn.s))
  /\ UNCHANGED <<waVars, chatVars, prodVars, pureVars, authVars, cnpjVars,
                 centsIn, centsOut, urlIn>>

NextConv == ReadPrice \/ Fetch

SpecConv == InitConv /\ [][NextConv]_vars

\* the dashboard with one to MaxButtons search buttons, each either compact
\* (an icon without text) or labelled
InitCompany ==
  /\ page = "index"
  /\ localStorage \in InitStorages
  /\ waCurrentInstance = Null /\ waCurrentToken = Null /\ waPollInterval = 0
  /\ activeTimers = {} /\ hidden = FALSE /\ qrLib = TRUE /\ statusText = Null
  /\ imgDisplay = "none" /\ drawerDisplay = "none" /\ inflight = NoRequests
  /\ microtask = "none" /\ connectedFor = Null /\ lastStep = "other"
  /\ InitChatIdle /\ InitProdIdle /\ InitPureIdle /\ InitAuthIdle /\ InitConvIdle
  /\ LET Button == {[compact |-> TRUE, disabled |-> FALSE, label |-> "", text |-> ""]}
                   \cup {[compact |-> FALSE, disabled |-> FALSE, label |-> l, text |-> l] :
                           l \in {"Buscar CNPJ", "Pesquisar"}}
     IN cnpjButtons \in UNION {[1..n -> Button] : n \in 1..MaxButtons}
  /\ originalTexts = << >>
  /\ cnpjLookups = 0
  /\ cnpjAlert = "none"
  /\ companyFilled = FALSE

NextCompany ==
  \/ \E i \in 1..MaxButtons, valid \in BOOLEAN : ClickSearch(i, valid)
  \/ \E ok \in BOOLEAN : LookupSettles(ok)

SpecCompany == InitCompany /\ [][NextCompany]_vars



(***************************************************************************)
(* extractQrFrom and friendlyState applied to bodies of any shape          *)
(***************************************************************************)
MaxDepth == 2        \* levels of objects below a field of the argument
MaxFields == 2       \* fields of the argument
MaxStrLen == 3       \* length of the generated state strings

SHORT == Str(<<"a", "b", "c">>)
TopKeys == {"qrcode", "code", "inner"}
NestKeys == {"code", "inner"}

\* objects exactly d levels deep: a string under 'code' or 'inner', wrapped
\* d - 1 times
RECURSIVE Level(_)
Level(d) ==
  IF d = 1 THEN {Obj(<< <<k, v>> >>) : k \in NestKeys, v \in {SHORT, QR_TXT}}
  ELSE {Obj(<< <<"inner", v>> >>) : v \in Level(d - 1)}
       \cup {Obj(<< <<"code", v>> >>) : v \in Level(d - 1) \cap Level(1)}

\* values nested at most d levels deep
Nested(d) == {SHORT, QR_TXT, QR_IMG} \cup UNION {Level(i) : i \in 1..d}

DistinctKeys(f) == \A i, j \in 1..Len(f) : i # j => f[i][1] # f[j][1]

\* arguments with at most n fields, each nested at most d levels deep
QrInputs(n, d) ==
  {Obj(f) : f \in UNION {{g \in [1..m -> TopKeys \X Nested(d)] : DistinctKeys(g)} :
                           m \in 0..n}}
  \cup {Null, Undefined, QR_TXT, Num(7), Arr(<<QR_TXT>>),
        Arr(<< Obj(<< <<"code", QR_TXT>> >>) >>),
        Obj(<< <<"inner", Arr(<< SHORT, Obj(<< <<"qrCode", QR_IMG>> >>) >>)>> >>)}

InitQr ==
  /\ InitWa /\ ~hidden /\ qrLib /\ localStorage["wa_instance"] = Null
  /\ InitChatIdle /\ InitProdIdle /\ InitAuthIdle /\ InitConvIdle /\ InitCnpjIdle
  /\ qrIn \in QrInputs(MaxFields, MaxDepth)
  /\ qrOut = NotComputed
  /\ rawIn = Null
  /\ rawOut = NotComputed

ExtractQr ==
  /\ qrOut = NotComputed
  /\ qrOut' = extractQrFrom(qrIn)
  /\ UNCHANGED <<waVars, chatVars, prodVars, qrIn, rawIn, rawOut, otherVars>>

SpecQr == InitQr /\ [][ExtractQr]_vars

StateAlphabet == {"q", "r", "Q", "R", "x"}
RECURSIVE StringsUpTo(_)
StringsUpTo(n) ==
  IF n = 0 THEN {<< >>}
  ELSE LET shorter == StringsUpTo(n - 1)
       IN shorter \cup {Append(w, c) : w \in {v \in shorter : Len(v) = n - 1},
                                       c \in StateAlphabet}

NamedStates == {
  S_connected, S_CONNECTED, <<"C","o","n","n","e","c","t","e","d">>,
  S_connected \o <<" ">>, <<"d","i","s">> \o S_connected,
  S_wait, <<"W","A","I","T","I","N","G">>, <<"a","w","a","i","t">>,
  S_connecting, <<"o","p","e","n">>, S_waiting_qr,
  <<"Q","R","C","O","D","E">>, <<"c","l","o","s","e">> }

Flags == {Undefined, Bool(TRUE), Bool(FALSE), Str(<<"t","r","u","e">>), Num(1)}
FlagObject(c, l) ==
  Obj((IF c = Undefined THEN << >> ELSE << <<"connected", c>> >>)
      \o (IF l = Undefined THEN << >> ELSE << <<"loggedIn", l>> >>))

\* raw states, the generated strings having at most n characters
RawInputs(n) ==
  {Str(w) : w \in StringsUpTo(n) \cup NamedStates}
  \cup {FlagObject(c, l) : c \in Flags, l \in Flags}
  \cup {Null, Undefined, Num(0), Num(1), Bool(TRUE), Bool(FALSE), Arr(<< >>),
        Arr(<<Bool(TRUE)>>)}

InitState ==
  /\ InitWa /\ ~hidden /\ qrLib /\ localStorage["wa_instance"] = Null
  /\ InitChatIdle /\ InitProdIdle /\ InitAuthIdle /\ InitConvIdle /\ InitCnpjIdle
  /\ qrIn = Null
  /\ qrOut = NotComputed
  /\ rawIn \in RawInputs(MaxStrLen)
  /\ rawOut = NotComputed

FriendlyState ==
  /\ rawOut = NotComputed
  /\ rawOut' = friendlyState(rawIn)
  /\ UNCHANGED <<waVars, chatVars, prodVars, qrIn, qrOut, rawIn, otherVars>>

SpecState == InitState /\ [][FriendlyState]_vars

(***************************************************************************)
(* Properties of the WhatsApp panel                                        *)
(***************************************************************************)
Fb1(b) == b[<<"fb1", "plain">>] + b[<<"fb1", "create">>]
Fb2(b) == b[<<"fb2", "plain">>] + b[<<"fb2", "create">>]
QrHidden == imgDisplay = "none" /\ drawerDisplay = "none"

\* C2: once updateWhatsAppStatus has processed a connected answer for the
\* current instance, the polling timer is cancelled and stays cancelled, so
\* that no further periodic status request is issued for that instance, also
\* when the connected answer is the one createWhatsAppInstance awaits before
\* it installs the timer.
C2_NoPollingOnceConnected == connectedFor # Null => activeTimers = {}

\* C3: whenever the document is hidden no status-polling timer is active; no
\* operation that completes while the document is hidden installs one.
C3_NoTimerWhileHidden == hidden => activeTimers = {}

\* C4: once a connected answer has been processed for the current
\* instance, neither the QR image nor the QR drawer is visible until a new
\* instance is created, whatever was still in flight.
C4_NoQrOnceConnected == connectedFor # Null => QrHidden

\* the part of C5 that concerns the failing request itself: nothing is shown
\* to the user, the awaiting caller goes on, instance, token, timer, status
\* text and QR stay as they were, and no request is added
StatusFailureIsSilent ==
  lastStep' = "statusFail" =>
    /\ UNCHANGED <<waCurrentInstance, waCurrentToken, waPollInterval,
                   activeTimers, statusText, imgDisplay, drawerDisplay>>
    /\ \A k \in ReqKinds : inflight'[k] <= inflight[k]
    /\ (inflight'[<<"status", "create">>] < inflight[<<"status", "create">>]
          => microtask' = "createCont")

\* C5 (as stated): a failed status request raises nothing, leaves instance,
\* token, timer, status text and QR unchanged and adds no request, and the
\* next timer tick issues a fresh status request.
C5_FailedStatusThenTickPolls ==
  [][ /\ StatusFailureIsSilent
      /\ (lastStep = "statusFail" /\ lastStep' = "tick" =>
            inflight'[<<"status", "plain">>] = inflight[<<"status", "plain">>] + 1) ]_vars

\* C5 (what the code guarantees): as stated, except that the next timer tick
\* issues a fresh status request only if waCurrentInstance and waCurrentToken
\* are both set at that tick (script.js:274); a create-instance answer without
\* a token, processed while the status request was pending, leaves ticks idle.
C5_FailedStatusThenTickPollsIfInstance ==
  [][ /\ StatusFailureIsSilent
      /\ ((lastStep = "statusFail" /\ lastStep' = "tick"
             /\ HasInstance(waCurrentInstance, waCurrentToken)) =>
            inflight'[<<"status", "plain">>] = inflight[<<"status", "plain">>] + 1) ]_vars

\* a status request has just failed while a QR was on display and a timer
\* was running for an instance that is still set
C5_Witness ==
  /\ lastStep = "statusFail"
  /\ activeTimers # {}
  /\ HasInstance(waCurrentInstance, waCurrentToken)
  /\ ~QrHidden

\* the part of C6 that concerns the fallback requests once they are made:
\* '/qr' is asked first and '/qrcode' only after '/qr' gave no QR string, an
\* answer with a QR string ends the search and shows it, and after two empty
\* answers the QR is hidden and no alert is shown
FallbackOrder ==
  /\ (Fb1(inflight') > Fb1(inflight) => lastStep' \in {"statusQr", "statusNoQr"})
  /\ (Fb2(inflight') > Fb2(inflight) =>
        lastStep' = "fbNoQr" /\ Fb1(inflight') = Fb1(inflight) - 1)
  /\ (lastStep' = "fbQr" =>
        /\ Fb1(inflight') + Fb2(inflight') = Fb1(inflight) + Fb2(inflight) - 1
        /\ \/ imgDisplay' = "block"
           \/ drawerDisplay' = "block"
           \/ inflight'[<<"canvas", "">>] = inflight[<<"canvas", "">>] + 1)
  /\ (lastStep' = "fbNoQr" /\ Fb1(inflight') < Fb1(inflight) =>
        /\ Fb2(inflight') = Fb2(inflight) + 1
        /\ UNCHANGED <<imgDisplay, drawerDisplay>>)
  /\ (lastStep' = "fbNoQr" /\ Fb1(inflight') = Fb1(inflight) =>
        /\ Fb2(inflight') = Fb2(inflight) - 1
        /\ QrHidden')

\* C6 (as stated): for a status answer that is not connected the fallback
\* endpoints are requested if and only if the answer holds no QR string and
\* the normalized state is 'waiting-qr'; then '/qr', then '/qrcode', stopping
\* at the first QR string, at most two requests, hiding the QR silently when
\* neither yields one.
C6_FallbackIffNoQrAndWaiting ==
  [][ /\ (lastStep' \in {"statusQr", "statusNoQr"} =>
            /\ Fb1(inflight') - Fb1(inflight) \in {0, 1}
            /\ (Fb1(inflight') = Fb1(inflight) + 1
                  <=> lastStep' = "statusNoQr" /\ statusText' = Str(S_waiting_qr)))
      /\ FallbackOrder ]_vars

\* C6 (what the code guarantees): as stated, with one more condition for the
\* fallback requests: waCurrentInstance and waCurrentToken are both still set
\* when the status answer is processed (script.js:159).
C6_FallbackIffNoQrWaitingAndInstance ==
  [][ /\ (lastStep' \in {"statusQr", "statusNoQr"} =>
            /\ Fb1(inflight') - Fb1(inflight) \in {0, 1}
            /\ (Fb1(inflight') = Fb1(inflight) + 1
                  <=> /\ lastStep' = "statusNoQr"
                      /\ statusText' = Str(S_waiting_qr)
                      /\ HasInstance(waCurrentInstance, waCurrentToken)))
      /\ FallbackOrder ]_vars

\* both fallback endpoints have answered without a QR string
C6_Witness ==
  /\ lastStep = "fbNoQr"
  /\ Fb1(inflight) + Fb2(inflight) = 0
  /\ statusText = Str(S_waiting_qr)
  /\ QrHidden

\* C9: the credentials token, org_id, flow_id and user_name in localStorage
\* change only in logout(), which removes all four; no other handler of the
\* dashboard removes or changes any of them.
C9_CredentialsOnlyRemovedByLogout ==
  [][ /\ ((\E k \in CredKeys : localStorage'[k] # localStorage[k]) =>
            page = "index" /\ page' = "login")
      /\ (page' = "login" => \A k \in CredKeys : localStorage'[k] = Null) ]_vars

\* logged out after an instance was created and the agent configuration
\* saved: the credentials are gone, the other keys are still there
C9_Witness ==
  /\ page = "login"
  /\ \A k \in CredKeys : localStorage[k] = Null
  /\ localStorage["wa_instance"] # Null
  /\ localStorage["agentConfig"] # Null

(***************************************************************************)
(* Properties of the chat memory, the product list and the two helpers     *)
(***************************************************************************)
\* the newest maxHistory entries of a, in their order
KeepNewest(a) ==
  IF Len(a) <= maxHistory THEN a
  ELSE [i \in 1..maxHistory |-> a[Len(a) - maxHistory + i]]

\* C1: the chat history never holds more than 20 entries, whatever the
\* Chatbot operations were; every push appends the new entry and, when that
\* would exceed 20, drops the oldest entries and keeps the others in their
\* order; no other step changes the history except clearMemory, which
\* empties it.
C1_HistoryKeepsNewestTwenty ==
  [][ /\ Len(history') <= maxHistory
      /\ IF pushes' = pushes + 1
         THEN /\ Len(history') >= 1
              /\ history'[Len(history')].ts = pushes
              /\ history' = KeepNewest(Append(history, history'[Len(history')]))
         ELSE history' = history \/ history' = << >> ]_vars

\* the memory is full and its oldest entries have been dropped
C1_Witness ==
  /\ Len(history) = maxHistory
  /\ history[1].ts = 2
  /\ history[maxHistory].ts = 21

\* the listed keys obj itself holds a QR string under
OwnKeysWithQr(obj) == {j \in 1..Len(QrKeys) : IsQrString(Get(obj, QrKeys[j]))}

\* C7 (as stated): extractQrFrom finds a QR string under a listed key of obj
\* itself or of an object exactly one level below obj, obj's own keys first;
\* a QR string two or more levels deep is not found and the result is null.
C7_SearchesOneLevelOnly ==
  qrOut # NotComputed =>
    /\ (qrOut # Null <=>
          \/ OwnKeysWithQr(qrIn) # {}
          \/ \E i \in 1..Len(ValuesOf(qrIn)) : OwnKeysWithQr(ValuesOf(qrIn)[i]) # {})
    /\ (OwnKeysWithQr(qrIn) # {} => qrOut = Get(qrIn, QrKeys[
          CHOOSE j \in OwnKeysWithQr(qrIn) : \A k \in OwnKeysWithQr(qrIn) : j <= k]))

\* C7 (what the code guarantees): extractQrFrom finds a QR string (a string
\* longer than 5 characters under a listed key) at any depth below obj: the
\* result is null exactly when there is none anywhere in obj, obj's own keys
\* come first, in the order of the key list, and otherwise the result is a QR
\* string of the first nested object, in key order, that holds one.
C7_SearchesEveryLevel ==
  qrOut # NotComputed =>
    /\ (qrOut = Null <=> QrStringsIn(qrIn) = {})
    /\ (OwnKeysWithQr(qrIn) # {} => qrOut = Get(qrIn, QrKeys[
          CHOOSE j \in OwnKeysWithQr(qrIn) : \A k \in OwnKeysWithQr(qrIn) : j <= k]))
    /\ (OwnKeysWithQr(qrIn) = {} /\ qrOut # Null =>
          \E i \in 1..Len(ValuesOf(qrIn)) :
            /\ qrOut \in QrStringsIn(ValuesOf(qrIn)[i])
            /\ \A h \in 1..(i - 1) : QrStringsIn(ValuesOf(qrIn)[h]) = {})

\* a QR string found in an object two levels below the argument
C7_Witness ==
  /\ qrIn = Obj(<< <<"code", SHORT>>,
                   <<"inner", Obj(<< <<"inner", Obj(<< <<"code", QR_TXT>> >>)>> >>)>> >>)
  /\ qrOut = QR_TXT

CasePairs == {<<"A","a">>, <<"C","c">>, <<"D","d">>, <<"E","e">>, <<"G","g">>,
              <<"I","i">>, <<"N","n">>, <<"O","o">>, <<"Q","q">>, <<"R","r">>,
              <<"T","t">>, <<"W","w">>}
SameLetter(c, d) == c = d \/ <<c, d>> \in CasePairs \/ <<d, c>> \in CasePairs
EqualsIgnoringCase(s, t) ==
  Len(s) = Len(t) /\ \A i \in 1..Len(s) : SameLetter(s[i], t[i])
ContainsIgnoringCase(s, t) ==
  \E i \in 0..(Len(s) - Len(t)) : \A j \in 1..Len(t) : SameLetter(s[i + j], t[j])

\* C8: friendlyState gives 'connected' for a string equal to 'connected'
\* ignoring case, 'waiting-qr' for any other string containing 'wait' or 'qr'
\* ignoring case, any other string unchanged, 'connected' for an object with
\* connected === true and loggedIn === true, 'waiting-qr' for an object with
\* connected === true and loggedIn === false, and 'connecting' for a missing
\* value or one that is neither a string nor an object.
C8_FriendlyStateCases ==
  rawOut # NotComputed =>
    /\ (rawIn.t = "str" =>
          rawOut = IF EqualsIgnoringCase(rawIn.s, S_connected) THEN Str(S_connected)
                   ELSE IF \/ ContainsIgnoringCase(rawIn.s, S_wait)
                           \/ ContainsIgnoringCase(rawIn.s, S_qr)
                        THEN Str(S_waiting_qr)
                        ELSE rawIn)
    /\ ((IsObject(rawIn) /\ Get(rawIn, "connected") = Bool(TRUE)
           /\ Get(rawIn, "loggedIn") = Bool(TRUE))
          => rawOut = Str(S_connected))
    /\ ((IsObject(rawIn) /\ Get(rawIn, "connected") = Bool(TRUE)
           /\ Get(rawIn, "loggedIn") = Bool(FALSE))
          => rawOut = Str(S_waiting_qr))
    /\ (rawIn.t \notin {"str", "obj", "arr"} => rawOut = Str(S_connecting))

\* 'QR' in capitals inside a longer string is classified as waiting-qr
C8_Witness ==
  /\ rawIn = Str(<<"x", "Q", "R">>)
  /\ rawOut = Str(S_waiting_qr)

\* C10: the product list is always the result of the last successful
\* fetchProducts (empty before the first one); a failed fetchProducts leaves
\* it as it was, and the table shows the rows of that list.
C10_ListReflectsLastSuccessfulFetch ==
  /\ products = lastFetched
  /\ (page = "index" => table = updateProductTable(products))

\* a fetchProducts call has just failed while the list held two products and
\* another product request was still pending
C10_Witness ==
  /\ fetchOutcome = "failed"
  /\ Len(products) = 2
  /\ ProductPending > 0

(***************************************************************************)
(* Properties of the product handlers                                      *)
(***************************************************************************)
\* C11: the product list changes only when a fetchProducts call completes,
\* and then it becomes the whole mapped answer; addProduct, saveEditProduct
\* and removeProduct leave the list as it is and, once their create, update
\* or delete request has settled, call fetchProducts whether the request
\* succeeded or failed.
C11_ListReplacedOnlyByFetch ==
  [][ /\ (products' # products =>
            productFetches' = productFetches - 1 /\ products' = lastFetched')
      /\ \A k \in {"create", "update", "delete"} :
           productWrites'[k] < productWrites[k] =>
             productFetches' = productFetches + 1 /\ products' = products ]_vars

\* a write has failed while the list held two products, and the fetchProducts
\* call made after it is pending
C11_Witness ==
  /\ productNotice = "danger"
  /\ productWrites = NoWrites
  /\ productFetches > 0
  /\ Len(products) = 2

\* C17: when the create-product request fails, addProduct shows an error
\* notification and the values entered in the product form are still there
\* when it returns.
C17_FailedCreateKeepsForm ==
  [][ (productWrites'["create"] < productWrites["create"]
         /\ productNotice' = "danger") =>
        productForm' = productForm ]_vars

(***************************************************************************)
(* Properties of the login page                                            *)
(***************************************************************************)
\* C12: one submit of the login form sends at most one POST to any given
\* login URL.
C12_OnePostPerLoginUrl ==
  authFlow = "login" =>
    \A i, j \in DOMAIN posts : posts[i] = posts[j] => i = j

\* C13: for one submit event the body of handleLogin / handleRegister after
\* the alreadyHandled check runs at most once, although the capture wrapper
\* and the plain listener are both bound to the form.
C13_BodyRunsAtMostOnce == bodyRuns <= 1

C13_Witness == bodyRuns = 1 /\ authFlow = "register" /\ authStep = 1

\* C18: when the backend accepts a registration but no answer holds a token,
\* handleRegister stores no token, does not navigate, shows no error and
\* switches the view to the login form.
C18_AcceptedWithoutTokenShowsLogin ==
  [][ (authFlow = "register" /\ authStep > 0 /\ authStep' = 0 /\
       accepted' /\ lastAnswer' # "token")
      => (/\ localStorage'["token"] = Null
          /\ page' = "login"
          /\ ~errShown'
          /\ view' = "login") ]_vars

\* C20: tryAuthEndpoints contacts the endpoints strictly in list order, one
\* at a time; the first answer with a token ends it and no later endpoint is
\* contacted; an error or an answer without token moves it to the next
\* endpoint; it throws only after every path was tried.
C20_EndpointsInOrder ==
  [][ LET paths == AuthPaths(authFlow, apiPrefix)
          N == Len(paths)
      IN (authStep \in 1..N /\ authStep' # authStep) =>
           /\ posts = [i \in 1..authStep |-> AuthUrl(paths[i], apiPrefix)]
           /\ IF lastAnswer' = "token"
              THEN authStep' = 0 /\ posts' = posts
              ELSE /\ authStep' = authStep + 1
                   /\ Len(posts') = authStep + 1
                   /\ (authStep < N =>
                        posts'[authStep + 1] = AuthUrl(paths[authStep + 1], apiPrefix)) ]_vars

C20_Witness ==
  /\ authFlow = "login" /\ authStep = 0 /\ lastAnswer = "token"
  /\ Len(posts) = 3 /\ page = "loading"
(***************************************************************************)
(* Properties of the price conversions                                     *)
(***************************************************************************)
\* the number of hundredths a string of the form 'R$ i.dd' stands for, and
\* -1 for a string of any other form
CentsShown(s) ==
  LET n == Len(s)
      IsDigit(ch) == \E d \in 1..10 : DigitChars[d] = ch
      Val(ch) == (CHOOSE d \in 1..10 : DigitChars[d] = ch) - 1
      RECURSIVE IntVal(_)
      IntVal(k) == IF k < 4 THEN 0 ELSE 10 * IntVal(k - 1) + Val(s[k])
  IN IF /\ n >= 7
        /\ SubSeq(s, 1, 3) = <<"R", "$", " ">>
        /\ s[n - 2] = "."
        /\ \A k \in (4..n) \ {n - 2} : IsDigit(s[k])
        /\ (n > 7 => s[4] # "0")
     THEN 100 * IntVal(n - 3) + 10 * Val(s[n - 1]) + Val(s[n])
     ELSE -1

C15_CommaAndDotGiveCents ==
  centsOut # NotComputed =>
    \A r \in 0..MaxReais, cc \in 0..99, sep \in {",", "."} :
      centsIn = PriceString(r, cc, sep) => centsOut = Num(100 * r + cc)

(***************************************************************************)
(* Properties of the API base shim                                         *)
(***************************************************************************)
\* whether url starts with one of the parts `api`, after at most one slash
StartsWithApi(url, api) ==
  \/ (Len(url) >= 1 /\ url[1] \in api)
  \/ (Len(url) >= 2 /\ url[1] = "/" /\ url[2] \in api)

\* url without its leading slashes and without the run of 'api/' after them
AfterApi(url) ==
  LET RECURSIVE Drop(_, _)
      Drop(q, parts) == IF q # << >> /\ Head(q) \in parts
                        THEN Drop(Tail(q), parts) ELSE q
  IN Drop(Drop(url, {"/"}), {"api/", "API/"})

\* url starts with a host name under railway.app and a slash
StartsWithHost(url) ==
  \E k \in 1..(Len(url) - 1) :
    /\ \A m \in 1..(k - 1) : url[m] \in {"x", "h.railway.app"}
    /\ url[k] = "h.railway.app"
    /\ url[k + 1] = "/"

C21_NavigateOnlyWithStoredToken ==
  [][ /\ ((page = "login" /\ page' = "loading") =>
            /\ authStep > 0
            /\ lastAnswer' = "token"
            /\ localStorage["token"] = Null
            /\ Truthy(localStorage'["token"])
            /\ Truthy(localStorage'["org_id"])
            /\ Truthy(localStorage'["flow_id"]))
      /\ ((authFlow = "login" /\ authStep = Len(AuthPaths(authFlow, apiPrefix)) + 1
           /\ authStep' = 0 /\ lastAnswer' = "notoken") =>
            /\ localStorage' = localStorage
            /\ errShown'
            /\ page' = "login") ]_vars

C21_Witness ==
  /\ page = "loading" /\ authFlow = "register" /\ Len(posts) = 7
  /\ Truthy(localStorage["token"]) /\ accepted
(***************************************************************************)
(* Properties of the chat requests                                         *)
(***************************************************************************)
\* C22: at most one chat request, text or image, is in flight at a time;
\* sendMessage has no effect while isTyping is true; isTyping is false and
\* the send button enabled again whenever the request in flight settles,
\* after success and failure alike.
C22_OneChatRequest ==
  [][ /\ chatInflight' <= 1
      /\ (isTyping =>
            /\ chatInflight' <= chatInflight
            /\ (pushes' = pushes + 1 =>
                  history'[Len(history')].role = "assistant"))
      /\ (chatInflight' < chatInflight => (~isTyping' /\ ~sendDisabled'))
      /\ (chatInflight' > chatInflight => (isTyping' /\ sendDisabled')) ]_vars

C22_Witness ==
  /\ chatInflight = 0 /\ ~isTyping /\ ~sendDisabled
  /\ Len(history) >= 4
  /\ history[Len(history)].content = ERRO
  /\ history[Len(history) - 2].content = REPLY

\* C23: every sendMessage call that passes its guards appends exactly one
\* entry with role 'assistant' when it completes (the reply text, '[erro]'
\* or '[erro imagem]'); the 'user' entry of a call with a text message is
\* appended before the request is sent and precedes that assistant entry.
C23_OneAssistantEntryPerCall ==
  [][ /\ (chatInflight' = chatInflight - 1 =>
            /\ pushes' = pushes + 1
            /\ history'[Len(history')].role = "assistant"
            /\ history'[Len(history')].content \in
                 {REPLY, IMG_REPLY, OK_TEXT, IMG_TEXT, ERRO, ERRO_IMAGEM}
            /\ \A i \in 1..(Len(history') - 1) :
                 history'[i].ts < history'[Len(history')].ts)
      /\ (chatInflight' = chatInflight + 1 =>
            /\ pushes' \in {pushes, pushes + 1}
            /\ (pushes' = pushes + 1 =>
                  /\ history'[Len(history')].role = "user"
                  /\ history'[Len(history')].ts = pushes))
      /\ (chatInflight' = chatInflight =>
            (history' = history \/ history' = << >>)) ]_vars

C23_Witness ==
  /\ chatInflight = 0
  /\ Len(history) = 2
  /\ history[1].role = "user" /\ history[2].role = "assistant"
  /\ history[2].content = IMG_REPLY
(***************************************************************************)
(* Properties of the polling timer                                         *)
(***************************************************************************)
\* C24: at any time at most one status-polling timer is active and its
\* handle is the one held in waPollInterval, after any interleaving of
\* createWhatsAppInstance, restoreWhatsAppInstance, visibility changes and
\* poll ticks; no timer runs without a handle through which it can be
\* cancelled.
C24_OneTimerHeldInHandle ==
  /\ Cardinality(activeTimers) <= 1
  /\ activeTimers \subseteq {waPollInterval}
\* C25: resuming on visibility only restores polling that was suspended by
\* hiding: once polling has been stopped because a connected status was
\* observed, a hidden-then-visible transition of the document does not start
\* the polling timer again.
C25_NoResumeOnceConnected ==
  [][ (connectedFor # Null /\ activeTimers = {} /\ hidden /\ ~hidden')
        => activeTimers' = {} ]_vars
====
